---- MODULE Spec2Model ----
(***************************************************************************)
(* Model of the WhatsApp integration of tsurugroups-api:                   *)
(*   - the Gateway Client (apps/whatsapp/services.py, WhatsAppAPIService   *)
(*     and the gateway calls of WhatsAppInstanceManager),                  *)
(*   - the instance lifecycle handlers (apps/whatsapp/views.py),           *)
(*   - instance creation and its quota (apps/whatsapp/views.py),           *)
(*   - the reconciliation of groups and contacts and the batched sync      *)
(*     (WhatsAppInstanceManager.sync_groups / sync_contacts,               *)
(*     sync_whatsapp_data_ajax),                                           *)
(*   - the identity of an instance (WhatsAppInstance.save).                *)
(*                                                                         *)
(* Python values are modelled as follows.  A dict is a function whose      *)
(* domain is its set of keys; a list is a sequence; a decoded JSON         *)
(* document carries a tag t ("dict" / "list") so isinstance() can be       *)
(* modelled.  f-strings are string concatenations.  A call either returns  *)
(* (Return) or raises (Raise); try/except is modelled by inspecting the    *)
(* raised exception class.                                                 *)
(***************************************************************************)
EXTENDS Integers, Sequences, FiniteSets, TLC

VARIABLES
    inst,          \* WhatsAppInstance table: id -> row, or NoRow
    subs,          \* Subscription table: user -> the user's subscription row
    clock,         \* timezone.now(), a counter read by the stamping code
    groups,        \* WhatsAppGroup table: a set of rows
    participants,  \* WhatsAppGroupParticipant table: a set of rows
    contacts,      \* WhatsAppContact table: a set of rows
    nextPk,        \* auto-increment primary keys of the three tables above
    uuid4,         \* what the next uuid.uuid4().hex[:8] yields
    queue,         \* the RQ queue "default": the jobs enqueued, in order
    procs,         \* the requests in flight: what each has read so far
    scheduled,     \* ScheduledMessage table: id -> row
    last           \* the last request handled: its inputs and its outcome

vars == <<inst, subs, clock, groups, participants, contacts, nextPk, uuid4, queue, procs, scheduled, last>>

(***************************************************************************)
(* Python values                                                           *)
(***************************************************************************)
None == "<None>"

EmptyDict == <<>>

JDict(d) == [t |-> "dict", v |-> d]
JList(s) == [t |-> "list", v |-> s]
JNone == [t |-> "none"]

\* dict.get(k, default)
Get(d, k, default) == IF k \in DOMAIN d THEN d[k] ELSE default

\* bool(x) for the strings the model uses: "" and None are falsy
Truthy(x) == x # "" /\ x # None

Return(v) == [raised |-> FALSE, ret |-> v]
Raise(e) == [raised |-> TRUE, exc |-> e]

(***************************************************************************)
(* The HTTP exchange with the gateway.  A response is either a transport   *)
(* failure (requests raises a RequestException) or an HTTP response with a *)
(* status code and a body.  response.json() raises                         *)
(* requests.exceptions.JSONDecodeError, a RequestException, on a body that *)
(* is empty or not JSON.                                                   *)
(***************************************************************************)
RequestException == {"ConnectionError", "Timeout", "JSONDecodeError"}

EmptyBody == [content |-> "empty", text |-> "", value |-> JNone]
TextBody == [content |-> "text", text |-> "<html>Bad Gateway</html>", value |-> JNone]
JsonBody(txt, v) == [content |-> "json", text |-> txt, value |-> v]

HttpResponse(code, b) == [kind |-> "http", status_code |-> code, body |-> b]
TransportFailure(e) == [kind |-> "transport", exc |-> e]

\* requests.get / requests.post / requests.delete
requests_call(resp) ==
    IF resp.kind = "transport" THEN Raise(resp.exc) ELSE Return(resp)

\* response.json()
response_json(resp) ==
    IF resp.body.content = "json" THEN Return(resp.body.value)
    ELSE Raise("JSONDecodeError")

\* str(data) inside an f-string
Repr(v) ==
    IF v.t = "dict" /\ v.v = EmptyDict THEN "{}" ELSE "<repr of the decoded body>"

ErrorDict(msg) == JDict([error |-> msg])

\* except requests.exceptions.RequestException as e:
\*     return False, {"error": f"Request failed: {str(e)}"}
except_pair(r) ==
    IF r.raised /\ r.exc \in RequestException
    THEN Return(<<FALSE, ErrorDict("Request failed: " \o r.exc)>>)
    ELSE r

\* except requests.exceptions.RequestException as e:
\*     return {"error": f"Request failed: {str(e)}"}
except_single(r) ==
    IF r.raised /\ r.exc \in RequestException
    THEN Return(ErrorDict("Request failed: " \o r.exc))
    ELSE r

\* data = response.json(); return True, data
return_true_json(resp) ==
    LET j == response_json(resp)
    IN  IF j.raised THEN j ELSE Return(<<TRUE, j.ret>>)

\* return False, {"error": f"{response.status_code}: {response.text}"}
return_false_error(prefix, resp) ==
    Return(<<FALSE,
             ErrorDict(prefix \o ToString(resp.status_code) \o ": " \o resp.body.text)>>)

\* data = response.json() if response.content else {}
\* return {"error": f"{response.status_code}: {response.text}\n{data}"}
return_error_with_data(prefix, resp) ==
    LET data == IF resp.body.content # "empty" THEN response_json(resp)
                ELSE Return(JDict(EmptyDict))
    IN  IF data.raised THEN data
        ELSE Return(ErrorDict(prefix \o ToString(resp.status_code) \o ": "
                              \o resp.body.text \o "\n" \o Repr(data.ret)))

\* the body shared by the operations that return (success, data) and accept
\* only HTTP 200
pair_operation(resp) ==
    LET r == requests_call(resp)
    IN  except_pair(
          IF r.raised THEN r
          ELSE IF resp.status_code = 200 THEN return_true_json(resp)
          ELSE return_false_error("", resp))

\* the body shared by the operations that return one dict and report the
\* decoded body in their error string
single_operation(resp) ==
    LET r == requests_call(resp)
    IN  except_single(
          IF r.raised THEN r
          ELSE IF resp.status_code = 200 THEN response_json(resp)
          ELSE return_error_with_data("", resp))

create_instance(resp) == pair_operation(resp)

connect_instance_only_200(resp) ==
    LET r == requests_call(resp)
    IN  except_pair(
          IF r.raised THEN r
          ELSE IF resp.status_code = 200 THEN return_true_json(resp)
          ELSE return_false_error("Error ", resp))

connect_instance(resp) ==
    LET r == requests_call(resp)
    IN  except_pair(
          IF r.raised THEN r
          ELSE IF resp.status_code \in {200, 409} THEN return_true_json(resp)
          ELSE return_false_error("Error ", resp))

delete_instance_decode_error_escapes(resp) ==
    LET r == requests_call(resp)
    IN  IF r.raised THEN except_single(r)
        ELSE IF resp.status_code = 200 THEN response_json(resp)
        ELSE return_error_with_data("Error ", resp)

delete_instance(resp) ==
    LET r == requests_call(resp)
    IN  except_single(
          IF r.raised THEN r
          ELSE IF resp.status_code = 200 THEN response_json(resp)
          ELSE return_error_with_data("Error ", resp))

send_text_message(resp) == pair_operation(resp)

send_menu_message(resp) == pair_operation(resp)

send_media_message(resp) == pair_operation(resp)

send_location_message(resp) == single_operation(resp)

send_contact_message(resp) ==
    LET r == requests_call(resp)
    IN  except_single(
          IF r.raised THEN r
          ELSE IF resp.status_code = 200 THEN response_json(resp)
          ELSE Return(ErrorDict(ToString(resp.status_code) \o ": " \o resp.body.text)))

\* return response.json().get('groups', [])
get_groups(resp) ==
    LET r == requests_call(resp)
    IN  except_single(
          IF r.raised THEN r
          ELSE IF resp.status_code = 200
               THEN LET j == response_json(resp)
                    IN  IF j.raised THEN j
                        ELSE IF j.ret.t # "dict" THEN Raise("AttributeError")
                        ELSE Return(Get(j.ret.v, "groups", JList(<<>>)))
          ELSE return_error_with_data("", resp))

get_group_info(resp) == single_operation(resp)

get_contacts(resp) == single_operation(resp)

get_contact_info(resp) == pair_operation(resp)

\* no status check: return response.json()
validate_whatsapp_number(resp) ==
    LET r == requests_call(resp)
    IN  except_single(IF r.raised THEN r ELSE response_json(resp))

setup_webhook(resp) ==
    LET r == requests_call(resp)
    IN  except_single(
          IF r.raised THEN r
          ELSE IF resp.status_code = 200
               THEN Return(JDict([success |-> "Webhook configurado com sucesso"]))
          ELSE return_error_with_data("", resp))

send_bulk_message(resp) == single_operation(resp)

\* WhatsAppInstanceManager.get_instance_status
get_instance_status(resp) ==
    LET r == requests_call(resp)
    IN  except_pair(
          IF r.raised THEN r
          ELSE IF resp.status_code = 200 THEN return_true_json(resp)
          ELSE return_false_error("Error ", resp))

\* WhatsAppInstanceManager.disconnect_instance
disconnect_instance(resp) ==
    LET r == requests_call(resp)
    IN  except_pair(
          IF r.raised THEN r
          ELSE IF resp.status_code = 200 THEN return_true_json(resp)
          ELSE return_false_error("Error ", resp))

PairOperations ==
    {"create_instance", "connect_instance", "send_text_message", "send_menu_message",
     "send_media_message", "get_contact_info", "get_instance_status",
     "disconnect_instance"}

SingleOperations ==
    {"delete_instance", "send_location_message", "send_contact_message", "get_groups",
     "get_group_info", "get_contacts", "validate_whatsapp_number", "setup_webhook",
     "send_bulk_message"}

GatewayOperations == PairOperations \cup SingleOperations

GatewayClient(op, resp) ==
    CASE op = "create_instance" -> create_instance(resp)
      [] op = "connect_instance" -> connect_instance(resp)
      [] op = "delete_instance" -> delete_instance(resp)
      [] op = "send_text_message" -> send_text_message(resp)
      [] op = "send_menu_message" -> send_menu_message(resp)
      [] op = "send_media_message" -> send_media_message(resp)
      [] op = "send_location_message" -> send_location_message(resp)
      [] op = "send_contact_message" -> send_contact_message(resp)
      [] op = "get_groups" -> get_groups(resp)
      [] op = "get_group_info" -> get_group_info(resp)
      [] op = "get_contacts" -> get_contacts(resp)
      [] op = "get_contact_info" -> get_contact_info(resp)
      [] op = "validate_whatsapp_number" -> validate_whatsapp_number(resp)
      [] op = "setup_webhook" -> setup_webhook(resp)
      [] op = "send_bulk_message" -> send_bulk_message(resp)
      [] op = "get_instance_status" -> get_instance_status(resp)
      [] op = "disconnect_instance" -> disconnect_instance(resp)

(***************************************************************************)
(* The local mirror store                                                  *)
(***************************************************************************)
MaxInst == 2
MaxClock == 1
MaxPlan == 2
MaxSyncs == 2

Users == {"u1", "u2"}
InstIds == 1..MaxInst

\* WhatsAppInstance.STATUS_CHOICES
STATUS_CHOICES ==
    {"disconnected", "connecting", "connected", "error", "qr_code", "pairing_code"}

\* the requests the server handles at the same time (worker processes)
MaxProcs == 2
Procs == 1..MaxProcs

\* a worker that handles no request
Idle == [op |-> "idle"]

\* no request is in flight
NoProcs == [p \in Procs |-> Idle]

NoRow == [exists |-> FALSE]

\* a DateTimeField: null, or the reading of timezone.now() stored in it
NoTime == [null |-> TRUE]
Time(n) == [at |-> n]

\* the values the instance form posts for whatsapp_number
FormNumbers == {"5511999999999"}

\* settings.DEFAULT_GATEWAY_URL
DEFAULT_GATEWAY_URL == "https://gateway.example"

\* the values uuid.uuid4().hex[:8] may yield: two, so that a name can repeat.
\* The first draw of a run is fixed, the values being interchangeable; every
\* save that consumes one is followed by a free draw.
Hex8 == {"0a1b2c3d", "9e8f7a6b"}

\* the WhatsAppInstance a form or a serializer builds: the model's field
\* defaults, not saved yet
NewInstance(u, number) ==
    [exists |-> TRUE, user |-> u, system_name |-> "", whatsapp_number |-> number,
     gateway_url |-> "", api_key |-> "", status |-> "disconnected",
     phone_number |-> "", qr_code |-> "", qr_code_expires_at |-> NoTime,
     pairing_code |-> "", last_disconnected_at |-> NoTime]

\* a save that generates the system name anew every time
stored_always_generates(obj, hex) ==
    [obj EXCEPT !.system_name = "tsuru_" \o obj.user \o "_" \o hex,
                !.gateway_url = DEFAULT_GATEWAY_URL]

\* a save that leaves the gateway_url of the object alone
stored_keeps_gateway_url(obj, hex) ==
    [obj EXCEPT !.system_name = IF @ = "" THEN "tsuru_" \o obj.user \o "_" \o hex ELSE @]

\* what WhatsAppInstance.save() writes for obj when uuid4().hex[:8] is hex
stored(obj, hex) ==
    [obj EXCEPT !.system_name = IF @ = "" THEN "tsuru_" \o obj.user \o "_" \o hex ELSE @,
                !.gateway_url = DEFAULT_GATEWAY_URL]

\* WhatsAppInstance.save().  phone_number, qr_code and pairing_code are NOT
\* NULL columns, so storing None in them raises IntegrityError; system_name
\* is a unique column, so inserting a name another row has raises it too
save(obj) ==
    IF obj.phone_number = None \/ obj.qr_code = None \/ obj.pairing_code = None
    THEN Raise("IntegrityError")
    ELSE IF /\ obj.system_name = ""
            /\ \E j \in DOMAIN inst :
                  inst[j].exists /\ inst[j].system_name = stored(obj, uuid4).system_name
    THEN Raise("IntegrityError")
    ELSE Return(stored(obj, uuid4))

\* WhatsAppInstance.is_connected
is_connected(row) == row.status = "connected"

\* WhatsAppInstance.objects.filter(user=u)
InstancesOf(u) == {i \in InstIds : inst[i] # NoRow /\ inst[i].user = u}

\* instances.first(): the queryset is unordered, so first() orders by primary key
First(u) == CHOOSE i \in InstancesOf(u) : \A j \in InstancesOf(u) : i <= j

\* 'k' in data, for a decoded JSON document
HasKey(data, k) == data.t = "dict" /\ k \in DOMAIN data.v

(***************************************************************************)
(* WhatsAppInstanceManager.sync_instance_status.  obj is the caller's      *)
(* in-memory instance, db the stored row; the result carries both after    *)
(* the call, the returned success flag and whether the call raised.        *)
(***************************************************************************)
MappedStatus(remote) ==
    IF remote \in {"open", "connected"} THEN "connected"
    ELSE IF remote = "connecting" THEN "connecting"
    ELSE "disconnected"

sync_instance_status_qr_by_old_status(obj, db, resp) ==
    LET r == get_instance_status(resp)
    IN  IF r.raised THEN [raised |-> TRUE, success |-> FALSE, obj |-> obj, db |-> db]
        ELSE IF ~(r.ret[1] /\ HasKey(r.ret[2], "instance"))
        THEN [raised |-> FALSE, success |-> FALSE, obj |-> obj, db |-> db]
        ELSE
        LET d == r.ret[2].v.instance
            remote == Get(d, "status", None)
        IN  IF remote = "connected" /\ obj.status = "connected"
            THEN [raised |-> FALSE, success |-> TRUE, obj |-> obj, db |-> db]
            ELSE
            LET mapped ==
                  IF remote = "open"
                  THEN [obj EXCEPT !.status = "connected",
                                   !.phone_number = Get(d, "profilePictureUrl", ""),
                                   !.whatsapp_number = Get(d, "owner", None)]
                  ELSE IF remote = "connecting"
                  THEN [obj EXCEPT !.status = "connecting"]
                  ELSE IF remote = "connected"
                  THEN [obj EXCEPT !.status = "connected",
                                   !.phone_number = Get(d, "owner", None),
                                   !.whatsapp_number = Get(d, "owner", None)]
                  ELSE [obj EXCEPT !.status = "disconnected"]
                withqr ==
                  IF "qrcode" \in DOMAIN d /\ obj.status # "connected"
                  THEN [mapped EXCEPT !.qr_code = d.qrcode, !.status = "qr_code"]
                  ELSE mapped
                s == save(withqr)
            IN  IF s.raised
                THEN [raised |-> TRUE, success |-> FALSE, obj |-> withqr, db |-> db]
                ELSE [raised |-> FALSE, success |-> TRUE, obj |-> s.ret, db |-> s.ret]

sync_instance_status_on_failure_too(obj, db, resp) ==
    LET s == save([obj EXCEPT !.status = "disconnected"])
    IN  [raised |-> FALSE, success |-> FALSE, obj |-> s.ret, db |-> s.ret]

sync_instance_status(obj, db, resp) ==
    LET r == get_instance_status(resp)
    IN  IF r.raised THEN [raised |-> TRUE, success |-> FALSE, obj |-> obj, db |-> db]
        ELSE IF ~(r.ret[1] /\ HasKey(r.ret[2], "instance"))
        THEN [raised |-> FALSE, success |-> FALSE, obj |-> obj, db |-> db]
        ELSE
        LET d == r.ret[2].v.instance
            remote == Get(d, "status", None)
        IN  IF remote = "connected" /\ obj.status = "connected"
            THEN [raised |-> FALSE, success |-> TRUE, obj |-> obj, db |-> db]
            ELSE
            LET mapped ==
                  IF remote = "open"
                  THEN [obj EXCEPT !.status = "connected",
                                   !.phone_number = Get(d, "profilePictureUrl", ""),
                                   !.whatsapp_number = Get(d, "owner", None)]
                  ELSE IF remote = "connecting"
                  THEN [obj EXCEPT !.status = "connecting"]
                  ELSE IF remote = "connected"
                  THEN [obj EXCEPT !.status = "connected",
                                   !.phone_number = Get(d, "owner", None),
                                   !.whatsapp_number = Get(d, "owner", None)]
                  ELSE [obj EXCEPT !.status = "disconnected"]
                withqr ==
                  IF "qrcode" \in DOMAIN d /\ mapped.status # "connected"
                  THEN [mapped EXCEPT !.qr_code = d.qrcode, !.status = "qr_code"]
                  ELSE mapped
                s == save(withqr)
            IN  IF s.raised
                THEN [raised |-> TRUE, success |-> FALSE, obj |-> withqr, db |-> db]
                ELSE [raised |-> FALSE, success |-> TRUE, obj |-> s.ret, db |-> s.ret]

(***************************************************************************)
(* What the gateway may answer                                             *)
(***************************************************************************)
Json(v) == JsonBody("<json text>", v)

\* a dict with the optional key k
Opt(k, vals) == {EmptyDict} \cup {k :> v : v \in vals}

OWNER == "5511999999999"
QR == "data:image/png;base64,QR"
PAIRCODE == "ABCD-1234"

PICTURE == "https://pps.whatsapp.net/p.jpg"

\* the "instance" object of GET /instance/status.  owner and profilePictureUrl
\* are read only when the status is open or connected, so the answers without
\* an owner are drawn for these two alone.
StatusData ==
    {a @@ b @@ [owner |-> OWNER, profilePictureUrl |-> PICTURE] :
        a \in Opt("status", {"open", "connected", "connecting", "disconnected"}),
        b \in Opt("qrcode", {QR})}
    \cup
    {[status |-> st, qrcode |-> "", owner |-> OWNER, profilePictureUrl |-> PICTURE] :
        st \in {"connected", "disconnected"}}
    \cup
    {[status |-> st, profilePictureUrl |-> PICTURE] : st \in {"open", "connected"}}

StatusResponses ==
    {TransportFailure("Timeout"), HttpResponse(500, TextBody),
     HttpResponse(200, Json(JDict(EmptyDict)))}
    \cup {HttpResponse(200, Json(JDict([instance |-> d]))) : d \in StatusData}

\* the "instance" object of POST /instance/connect
ConnectData ==
    {[status |-> "connecting", paircode |-> PAIRCODE],
     [status |-> "connecting", paircode |-> ""],
     [status |-> "connecting", qrcode |-> QR],
     [status |-> "connected", paircode |-> PAIRCODE]}

ConnectResponses ==
    {TransportFailure("ConnectionError"), HttpResponse(500, TextBody),
     HttpResponse(200, Json(JDict(EmptyDict))),
     HttpResponse(409, Json(JDict([instance |->
                                     [status |-> "connecting", paircode |-> PAIRCODE]])))}
    \cup {HttpResponse(200, Json(JDict([instance |-> d]))) : d \in ConnectData}

\* the answers drawn for the status refresh that ends a POST of the web view
\* (every answer of StatusResponses is drawn for the refresh of a plain request)
RefreshResponses ==
    {TransportFailure("Timeout"),
     HttpResponse(200, Json(JDict([instance |->
        [status |-> "connected", owner |-> OWNER, profilePictureUrl |-> PICTURE]]))),
     HttpResponse(200, Json(JDict([instance |->
        [status |-> "connecting", qrcode |-> QR, owner |-> OWNER,
         profilePictureUrl |-> PICTURE]])))}

DisconnectResponses ==
    {TransportFailure("ConnectionError"), HttpResponse(500, TextBody),
     HttpResponse(200, TextBody), HttpResponse(200, Json(JDict(EmptyDict)))}

DeleteResponses ==
    {TransportFailure("ConnectionError"), HttpResponse(200, Json(JDict(EmptyDict))),
     HttpResponse(200, TextBody), HttpResponse(404, EmptyBody),
     HttpResponse(500, TextBody), HttpResponse(500, Json(ErrorDict("instance not found")))}

CreateResponses ==
    {TransportFailure("ConnectionError"), HttpResponse(500, TextBody),
     HttpResponse(200, Json(JDict([token |-> "tok"])))}

(***************************************************************************)
(* whatsapp_connect_view: the branches of the POST actions and the status  *)
(* refresh that ends every request the view does not redirect              *)
(***************************************************************************)
\* action == "connect": the try block; every exception is caught by the view
web_connect_action(obj, db, resp) ==
    LET r == connect_instance(resp)
    IN  IF r.raised \/ ~r.ret[1] THEN [success |-> FALSE, obj |-> obj, db |-> db]
        ELSE
        LET o1 == [obj EXCEPT !.status = "connecting"]
            result == r.ret[2]
        IN  IF result.t # "dict" THEN [success |-> TRUE, obj |-> o1, db |-> db]
            ELSE
            LET instance_data == Get(result.v, "instance", EmptyDict)
                o2 == IF /\ instance_data # EmptyDict
                         /\ Get(instance_data, "status", None) = "connecting"
                         /\ Truthy(Get(instance_data, "paircode", None))
                      THEN [o1 EXCEPT !.pairing_code = instance_data.paircode,
                                      !.status = "pairing_code"]
                      ELSE o1
                s == save(o2)
            IN  IF s.raised THEN [success |-> TRUE, obj |-> o2, db |-> db]
                ELSE [success |-> TRUE, obj |-> s.ret, db |-> s.ret]

\* action == "disconnect": the try block
web_disconnect_action(obj, db, resp, now) ==
    LET r == disconnect_instance(resp)
    IN  IF r.raised \/ ~r.ret[1] THEN [success |-> FALSE, obj |-> obj, db |-> db]
        ELSE
        LET o1 == [obj EXCEPT !.status = "disconnected", !.phone_number = "",
                              !.qr_code = "", !.last_disconnected_at = Time(now)]
            s == save(o1)
        IN  IF s.raised THEN [success |-> TRUE, obj |-> o1, db |-> db]
            ELSE [success |-> TRUE, obj |-> s.ret, db |-> s.ret]

\* if instance: try: sync_instance_status(instance) except: pass
refresh_status(obj, db, sresp) == sync_instance_status(obj, db, sresp).db

\* instance.delete(): the groups, their participants and the contacts go with
\* it (CASCADE)
DeleteRows(i) ==
    /\ inst' = [inst EXCEPT ![i] = NoRow]
    /\ groups' = {g \in groups : g.whatsapp_instance # i}
    /\ contacts' = {c \in contacts : c.whatsapp_instance # i}
    /\ participants' =
         {p \in participants :
             \E g \in groups : g.pk = p.group /\ g.whatsapp_instance # i}

WebConnect(u, resp, sresp) ==
    /\ InstancesOf(u) # {}
    /\ \E i \in {First(u)} : \E c \in {web_connect_action(inst[i], inst[i], resp)} :
           /\ inst' = [inst EXCEPT ![i] = refresh_status(c.obj, c.db, sresp)]
           /\ last' = [op |-> "web_connect", user |-> u, id |-> i, resp |-> resp,
                       gateway_ok |-> c.success, saved |-> c.db, sresp |-> sresp,
                       from_error |-> inst[i].status = "error"]
    /\ UNCHANGED <<subs, clock, groups, participants, contacts, nextPk, uuid4, queue, procs, scheduled>>

WebDisconnect(u, resp, sresp) ==
    /\ InstancesOf(u) # {}
    /\ clock < MaxClock
    /\ \E i \in {First(u)} :
         \E c \in {web_disconnect_action(inst[i], inst[i], resp, clock + 1)} :
           /\ inst' = [inst EXCEPT ![i] = refresh_status(c.obj, c.db, sresp)]
           /\ clock' = IF c.success THEN clock + 1 ELSE clock
           /\ last' = [op |-> "web_disconnect", user |-> u, id |-> i, resp |-> resp,
                       gateway_ok |-> c.success, saved |-> c.db,
                       now |-> clock + 1, sresp |-> sresp,
                       from_error |-> inst[i].status = "error"]
    /\ UNCHANGED <<subs, groups, participants, contacts, nextPk, uuid4, queue, procs, scheduled>>

\* the refresh request is sent only when the delete branch has not redirected
NoRequest == [sent |-> FALSE]
RefreshAfterDelete(resp) ==
    IF delete_instance(resp).raised THEN RefreshResponses ELSE {NoRequest}

\* action == "delete": the remote delete, then instance.delete() and a redirect;
\* had delete_instance raised, the view would catch it, skip the local delete
\* and go on to the status refresh
WebDelete(u, resp, sresp) ==
    /\ InstancesOf(u) # {}
    /\ LET i == First(u)
           r == delete_instance(resp)
       IN  /\ IF r.raised
              THEN /\ inst' = [inst EXCEPT ![i] = refresh_status(inst[i], inst[i], sresp)]
                   /\ UNCHANGED <<groups, participants, contacts>>
              ELSE DeleteRows(i)
           /\ last' = [op |-> "web_delete", user |-> u, id |-> i, resp |-> resp,
                       raised |-> r.raised]
    /\ UNCHANGED <<subs, clock, nextPk, uuid4, queue, procs, scheduled>>

\* a request with no action, or one whose action does nothing: only the refresh
WebView(u, sresp) ==
    /\ InstancesOf(u) # {}
    /\ LET i == First(u)
       IN  /\ inst' = [inst EXCEPT ![i] = refresh_status(inst[i], inst[i], sresp)]
           /\ last' = [op |-> "web_view", user |-> u, id |-> i, resp |-> sresp,
                       from_error |-> inst[i].status = "error"]
    /\ UNCHANGED <<subs, clock, groups, participants, contacts, nextPk, uuid4, queue, procs, scheduled>>

\* get_qr_code_ajax
QrCodeAjax(u, sresp) ==
    /\ InstancesOf(u) # {}
    /\ LET i == First(u)
       IN  /\ inst[i].status \in {"qr_code", "pairing_code", "connecting"}
           /\ inst' = [inst EXCEPT ![i] = sync_instance_status(inst[i], inst[i], sresp).db]
           /\ last' = [op |-> "qr_code_ajax", user |-> u, id |-> i, resp |-> sresp]
    /\ UNCHANGED <<subs, clock, groups, participants, contacts, nextPk, uuid4, queue, procs, scheduled>>

(***************************************************************************)
(* The REST endpoints of an instance                                       *)
(***************************************************************************)
\* Each REST operation has two routes with the same body: the APIView
\* (ConnectInstanceView, DisconnectInstanceView, InstanceStatusView) and the
\* action of WhatsAppInstanceViewSet (connect, disconnect, status).  One action
\* of the model stands for both.
\* WhatsAppAPIService.connect_instance(instance, phone): connect_instance takes
\* the instance alone, so the call raises TypeError before any request is sent
rest_connect(obj, db, resp) ==
    [raised |-> TRUE, exc |-> "TypeError", db |-> db]

\* WhatsAppAPIService.disconnect_instance(instance): WhatsAppAPIService has no
\* such attribute (it is a method of WhatsAppInstanceManager): AttributeError
rest_disconnect(obj, db, resp, now) ==
    [raised |-> TRUE, exc |-> "AttributeError", db |-> db]

RestConnect(u, i, resp) ==
    /\ i \in InstancesOf(u)
    /\ LET c == rest_connect(inst[i], inst[i], resp)
       IN  /\ inst' = [inst EXCEPT ![i] = c.db]
           /\ last' = [op |-> "rest_connect", user |-> u, id |-> i,
                       resp |-> resp, raised |-> c.raised,
                       saved |-> c.db]
    /\ UNCHANGED <<subs, clock, groups, participants, contacts, nextPk, uuid4, queue, procs, scheduled>>

RestDisconnect(u, i, resp) ==
    /\ i \in InstancesOf(u)
    /\ clock < MaxClock
    /\ LET c == rest_disconnect(inst[i], inst[i], resp, clock + 1)
       IN  /\ inst' = [inst EXCEPT ![i] = c.db]
           /\ clock' = IF c.raised THEN clock ELSE clock + 1
           /\ last' = [op |-> "rest_disconnect", user |-> u, id |-> i,
                       resp |-> resp, raised |-> c.raised,
                       saved |-> c.db, now |-> clock + 1]
    /\ UNCHANGED <<subs, groups, participants, contacts, nextPk, uuid4, queue, procs, scheduled>>

RestStatus(u, i, sresp) ==
    /\ i \in InstancesOf(u)
    /\ \E r \in {sync_instance_status(inst[i], inst[i], sresp)} :
           /\ inst' = [inst EXCEPT ![i] = r.db]
           /\ last' = [op |-> "rest_status", user |-> u, id |-> i,
                       resp |-> sresp, raised |-> r.raised,
                       success |-> r.success,
                       from_error |-> inst[i].status = "error"]
    /\ UNCHANGED <<subs, clock, groups, participants, contacts, nextPk, uuid4, queue, procs, scheduled>>

\* WhatsAppInstanceViewSet.destroy (ModelViewSet): instance.delete(), no gateway call
RestDestroy(u, i) ==
    /\ i \in InstancesOf(u)
    /\ DeleteRows(i)
    /\ last' = [op |-> "rest_destroy", user |-> u, id |-> i]
    /\ UNCHANGED <<subs, clock, nextPk, uuid4, queue, procs, scheduled>>

\* admin.site.register(WhatsAppInstance): the admin change form edits status
AdminChange(i, st) ==
    /\ inst[i] # NoRow
    /\ inst[i].status # st
    /\ inst' = [inst EXCEPT ![i] = save([inst[i] EXCEPT !.status = st]).ret]
    /\ last' = [op |-> "admin_change", id |-> i]
    /\ UNCHANGED <<subs, clock, groups, participants, contacts, nextPk, uuid4, queue, procs, scheduled>>

(***************************************************************************)
(* Instance creation and the plan quota                                    *)
(***************************************************************************)
NoSub == [exists |-> FALSE]

\* Subscription.STATUS_CHOICES (those the quota tells apart)
SubscriptionRows ==
    {NoSub} \cup [exists : {TRUE}, status : {"active", "trialing", "canceled"},
                  max_whatsapp_instances : 1..MaxPlan]

\* User.current_subscription
current_subscription(u) ==
    IF subs[u] # NoSub /\ subs[u].status \in {"active", "trialing"} THEN subs[u] ELSE NoSub

\* Subscription.is_active
subscription_is_active(sub) == sub.status \in {"active", "trialing"}

\* max_instances of whatsapp_connect_view
max_instances(u) ==
    LET subscription == current_subscription(u)
    IN  IF subscription # NoSub /\ subscription_is_active(subscription)
        THEN subscription.max_whatsapp_instances
        ELSE 1

ExistingIds == {i \in InstIds : inst[i] # NoRow}

\* if success: instance.api_key = result.get("token", ""); instance.save()
store_token(row, cresp) ==
    LET r == create_instance(cresp)
    IN  IF ~r.raised /\ r.ret[1] /\ r.ret[2].t = "dict"
        THEN [row EXCEPT !.api_key = Get(r.ret[2].v, "token", "")]
        ELSE row

\* whatsapp_connect_view, action == "create_instance".  new is the request's
\* ?instance=new; the view redirects after a valid form, so no refresh follows.
\* An exception of instance.save() is caught by the view: nothing is stored.
\* The save of a new instance consumes a uuid4.
WebCreateInstance(u, new, number, cresp) ==
    LET current_instances_count == Cardinality(InstancesOf(u))
        can_create_more == current_instances_count < max_instances(u)
        instance_exists == InstancesOf(u) # {} /\ ~new
        seen == [op |-> "web_create", user |-> u, new |-> new,
                 count |-> current_instances_count, max |-> max_instances(u),
                 before |-> ExistingIds]
    IN  /\ IF ~can_create_more /\ ~instance_exists
           THEN /\ UNCHANGED <<inst, uuid4>>
                /\ last' = seen @@ [rejected |-> TRUE, update |-> FALSE, id |-> 0]
           ELSE IF instance_exists
           THEN /\ inst' = [inst EXCEPT ![First(u)] =
                              store_token(save([@ EXCEPT !.whatsapp_number = number]).ret,
                                          cresp)]
                /\ UNCHANGED uuid4
                /\ last' = seen @@ [rejected |-> FALSE, update |-> TRUE, id |-> First(u)]
           ELSE \E i \in InstIds \ ExistingIds : \E s \in {save(NewInstance(u, number))} :
                /\ inst' = [inst EXCEPT ![i] =
                              IF s.raised THEN NoRow ELSE store_token(s.ret, cresp)]
                /\ uuid4' \in Hex8
                /\ last' = seen @@ [rejected |-> FALSE, update |-> FALSE, id |-> i]
        /\ UNCHANGED <<subs, clock, groups, participants, contacts, nextPk, queue, procs,
                   scheduled>>

\* WhatsAppInstanceViewSet.perform_create: the row is saved (500 when the save
\* raises), then created at the gateway, and deleted again when the gateway
\* refuses; the Response it returns then is dropped by CreateModelMixin.create,
\* which answers 201
perform_create(u, i, number, cresp) ==
    LET s == save(NewInstance(u, number))
        r == create_instance(cresp)
    IN  IF s.raised THEN [http |-> 500, row |-> NoRow]
        ELSE IF r.raised \/ ~r.ret[1] THEN [http |-> 201, row |-> NoRow]
        ELSE [http |-> 201, row |-> s.ret]

RestCreate(u, number, cresp) ==
    /\ \E i \in InstIds \ ExistingIds :
         \E c \in {perform_create(u, i, number, cresp)} :
             /\ inst' = [inst EXCEPT ![i] = c.row]
             /\ last' = [op |-> "rest_create", user |-> u, new |-> TRUE,
                         count |-> Cardinality(InstancesOf(u)),
                         max |-> max_instances(u), before |-> ExistingIds,
                         rejected |-> c.http # 201, update |-> FALSE, id |-> i]
    /\ uuid4' \in Hex8
    /\ UNCHANGED <<subs, clock, groups, participants, contacts, nextPk, queue, procs,
                   scheduled>>

\* Two steps of the same action when requests are served concurrently: the
\* view has counted the instances, passed the quota check and is about to
\* build and save a new instance (no lock and no transaction spans the two)
WebCreateBegin(p, u, new, number) ==
    LET current_instances_count == Cardinality(InstancesOf(u))
        can_create_more == current_instances_count < max_instances(u)
        instance_exists == InstancesOf(u) # {} /\ ~new
    IN  /\ procs[p] = Idle
        /\ can_create_more /\ ~instance_exists
        /\ procs' = [procs EXCEPT ![p] =
                       [op |-> "web_create", user |-> u, new |-> new,
                        number |-> number, count |-> current_instances_count,
                        max |-> max_instances(u)]]
        /\ UNCHANGED <<inst, subs, clock, groups, participants, contacts, nextPk,
                       uuid4, queue, scheduled, last>>

\* instance.save() and the creation at the gateway, on what the request read
WebCreateFinish(p, cresp) ==
    /\ procs[p].op = "web_create"
    /\ \E i \in InstIds \ ExistingIds :
         \E s \in {save(NewInstance(procs[p].user, procs[p].number))} :
           /\ inst' = [inst EXCEPT ![i] =
                         IF s.raised THEN NoRow ELSE store_token(s.ret, cresp)]
           /\ last' = [op |-> "web_create", user |-> procs[p].user,
                       new |-> procs[p].new, count |-> procs[p].count,
                       max |-> procs[p].max, before |-> ExistingIds,
                       rejected |-> FALSE, update |-> FALSE, id |-> i]
    /\ uuid4' \in Hex8
    /\ procs' = [procs EXCEPT ![p] = Idle]
    /\ UNCHANGED <<subs, clock, groups, participants, contacts, nextPk, queue,
                   scheduled>>

(***************************************************************************)
(* One call of a Gateway Client operation                                  *)
(***************************************************************************)
GatewayBodies ==
    {EmptyBody, TextBody, Json(JDict(EmptyDict)), Json(ErrorDict("instance not found")),
     Json(JDict([message |-> "Unauthorized"])),
     Json(JDict([instance |-> [status |-> "connecting", paircode |-> PAIRCODE]])),
     Json(JDict([groups |-> JList(<<>>)])), Json(JList(<<>>))}

GatewayResponses ==
    {TransportFailure(e) : e \in {"ConnectionError", "Timeout"}}
    \cup {HttpResponse(code, b) : code \in {200, 201, 401, 404, 409, 500}, b \in GatewayBodies}

GatewayCall(op, resp) ==
    /\ last' = [op |-> "gateway_call", operation |-> op, resp |-> resp,
                result |-> GatewayClient(op, resp)]
    /\ UNCHANGED <<inst, subs, clock, groups, participants, contacts, nextPk, uuid4, queue, procs, scheduled>>

(***************************************************************************)
(* Specifications                                                          *)
(***************************************************************************)
(***************************************************************************)
(* WhatsAppInstanceManager.sync_groups.  A string the code searches with   *)
(* "in" and rewrites with replace() is a sequence of fragments; '' is <<>>. *)
(* Of the plain copies group_data.get(key, default) the model keeps Name   *)
(* and IsAnnounce; the others (Topic, IsLocked, ...) are copied likewise.  *)
(***************************************************************************)
WA_SUFFIX == "@s.whatsapp.net"

\* frag in s
Contains(s, frag) == \E k \in DOMAIN s : s[k] = frag

\* s.replace(old, new)
Replace(s, old, new) == [k \in DOMAIN s |-> IF s[k] = old THEN new ELSE s[k]]

\* s.replace(frag, '')
Remove(s, frag) == SelectSeq(s, LAMBDA c : c # frag)

\* the strings datetime.fromisoformat accepts, among those the model draws
IsoFormats == {<<"2024-01-01T10:00:00", "+00:00">>}

fromisoformat(s) ==
    IF s \in IsoFormats THEN Return([datetime |-> s]) ELSE Raise("ValueError")

\* group_created: the raw GroupCreated when it does not parse
group_created_keeps_raw(group_data) ==
    LET raw == Get(group_data, "GroupCreated", <<>>)
    IN  IF raw = <<>> THEN NoTime
        ELSE LET r == fromisoformat(Replace(raw, "Z", "+00:00"))
             IN  IF r.raised THEN [datetime |-> raw] ELSE r.ret

\* group_created: None unless GroupCreated is there and parses
group_created_of(group_data) ==
    LET raw == Get(group_data, "GroupCreated", <<>>)
    IN  IF raw = <<>> THEN NoTime
        ELSE LET r == fromisoformat(Replace(raw, "Z", "+00:00"))
             IN  IF r.raised /\ r.exc \in {"ValueError", "AttributeError"}
                 THEN NoTime ELSE r.ret

\* is_admin: OwnerIsAdmin, or any participant that is an admin or a super admin
is_admin_of_any_admin(group_data) ==
    LET is_admin == Get(group_data, "OwnerIsAdmin", FALSE)
        participants_data == Get(group_data, "Participants", <<>>)
    IN  IF is_admin THEN is_admin
        ELSE \E k \in DOMAIN participants_data :
                \/ Get(participants_data[k], "IsAdmin", FALSE)
                \/ Get(participants_data[k], "IsSuperAdmin", FALSE)

\* is_admin: OwnerIsAdmin, or the owner found among the participants as an
\* admin or a super admin
is_admin_of(group_data) ==
    LET is_admin == Get(group_data, "OwnerIsAdmin", FALSE)
        participants_data == Get(group_data, "Participants", <<>>)
        owner_jid == Get(group_data, "OwnerJID", <<>>)
    IN  IF is_admin THEN is_admin
        ELSE \E k \in DOMAIN participants_data :
                /\ "JID" \in DOMAIN participants_data[k]
                /\ participants_data[k].JID = owner_jid
                /\ \/ Get(participants_data[k], "IsAdmin", FALSE)
                   \/ Get(participants_data[k], "IsSuperAdmin", FALSE)

owner_phone_of(owner_jid) ==
    IF owner_jid # <<>> /\ Contains(owner_jid, WA_SUFFIX)
    THEN Remove(owner_jid, WA_SUFFIX) ELSE <<>>

\* phone_number: the PhoneNumber field as it is
phone_number_keeps_field(participant_data, participant_jid) ==
    IF Contains(participant_jid, WA_SUFFIX) THEN Remove(participant_jid, WA_SUFFIX)
    ELSE IF Get(participant_data, "PhoneNumber", <<>>) # <<>>
         THEN participant_data.PhoneNumber
    ELSE <<>>

phone_number_of(participant_data, participant_jid) ==
    IF Contains(participant_jid, WA_SUFFIX) THEN Remove(participant_jid, WA_SUFFIX)
    ELSE IF Get(participant_data, "PhoneNumber", <<>>) # <<>>
         THEN Remove(participant_data.PhoneNumber, WA_SUFFIX)
    ELSE <<>>

\* Model.objects.create(**key, **defaults), whatever rows there are
update_or_create_always_creates(rows, pk, key, defaults, fresh, notnull, now) ==
    IF \E f \in notnull : defaults[f] = None
    THEN [raised |-> TRUE, exc |-> "IntegrityError"]
    ELSE [raised |-> FALSE,
          rows |-> rows \cup {defaults @@ key @@ fresh @@
                              [pk |-> pk, created_at |-> Time(now),
                               updated_at |-> Time(now)]},
          pk |-> pk + 1, obj_pk |-> pk]

\* Model.objects.update_or_create(**key, defaults=defaults): the row that has
\* the key gets the defaults and is saved (auto_now stamps updated_at); when
\* there is none, a row is created from key and defaults.  fresh are the
\* field defaults of the model, notnull the NOT NULL columns that may get
\* None, pk the next primary key.
update_or_create(rows, pk, key, defaults, fresh, notnull, now) ==
    LET found == {r \in rows : \A f \in DOMAIN key : r[f] = key[f]}
    IN  IF Cardinality(found) > 1
        THEN [raised |-> TRUE, exc |-> "MultipleObjectsReturned"]
        ELSE IF \E f \in notnull : defaults[f] = None
        THEN [raised |-> TRUE, exc |-> "IntegrityError"]
        ELSE IF found = {}
        THEN [raised |-> FALSE,
              rows |-> rows \cup {defaults @@ key @@ fresh @@
                                  [pk |-> pk, created_at |-> Time(now),
                                   updated_at |-> Time(now)]},
              pk |-> pk + 1, obj_pk |-> pk]
        ELSE LET old == CHOOSE r \in found : TRUE
             IN  [raised |-> FALSE,
                  rows |-> (rows \ {old}) \cup
                           {defaults @@ [updated_at |-> Time(now)] @@ old},
                  pk |-> pk, obj_pk |-> old.pk]

\* the lookup, the defaults, the model's own field defaults and the NOT NULL
\* columns that may get None, of the update_or_create of a participant
participant_upsert(group_pk, participant_data) ==
    LET participant_jid == Get(participant_data, "JID", <<>>)
    IN  [key |-> [group |-> group_pk, jid |-> participant_jid],
         defaults |->
           [phone_number |-> phone_number_of(participant_data, participant_jid),
            display_name |-> Get(participant_data, "DisplayName", ""),
            is_admin |-> Get(participant_data, "IsAdmin", FALSE),
            is_super_admin |-> Get(participant_data, "IsSuperAdmin", FALSE),
            is_active |-> TRUE],
         fresh |-> EmptyDict, notnull |-> {"display_name"}]

\* the same of the update_or_create of a group
group_upsert(i, group_data, now) ==
    LET owner_jid == Get(group_data, "OwnerJID", <<>>)
    IN  [key |-> [whatsapp_instance |-> i, group_id |-> Get(group_data, "JID", <<>>)],
         defaults |->
           [name |-> Get(group_data, "Name", ""),
            participant_count |-> Len(Get(group_data, "Participants", <<>>)),
            is_admin |-> is_admin_of(group_data),
            owner_jid |-> owner_jid,
            owner_phone_number |-> owner_phone_of(owner_jid),
            is_announce |-> Get(group_data, "IsAnnounce", FALSE),
            group_created |-> group_created_of(group_data),
            last_synced_at |-> Time(now)],
         fresh |-> [invite_link |-> "", is_active |-> TRUE], notnull |-> {"name"}]

\* for participant_data in participants_data, from the k-th one on
RECURSIVE sync_participants(_, _, _, _, _)
sync_participants(participants_data, k, group_pk, db, now) ==
    IF k > Len(participants_data) THEN [raised |-> FALSE, db |-> db]
    ELSE
    LET participant_data == participants_data[k]
        participant_jid == Get(participant_data, "JID", <<>>)
    IN  IF participant_jid = <<>>
        THEN sync_participants(participants_data, k + 1, group_pk, db, now)
        ELSE
        LET a == participant_upsert(group_pk, participant_data)
            u == update_or_create(db.participants, db.nextPk.participant,
                                  a.key, a.defaults, a.fresh, a.notnull, now)
        IN  IF u.raised THEN [raised |-> TRUE, exc |-> u.exc, db |-> db]
            ELSE sync_participants(
                   participants_data, k + 1, group_pk,
                   [db EXCEPT !.participants = u.rows, !.nextPk.participant = u.pk],
                   now)

\* for group_data in data, from the k-th one on; the rows written before an
\* exception stay (the code opens no transaction)
RECURSIVE sync_group_list(_, _, _, _, _, _)
sync_group_list(data, k, i, db, synced_count, now) ==
    IF k > Len(data)
    THEN [raised |-> FALSE, db |-> db, synced_count |-> synced_count]
    ELSE
    LET group_data == data[k]
        a == group_upsert(i, group_data, now)
        u == update_or_create(db.groups, db.nextPk.group,
                              a.key, a.defaults, a.fresh, a.notnull, now)
    IN  IF u.raised THEN [raised |-> TRUE, exc |-> u.exc, db |-> db]
        ELSE
        LET p == sync_participants(
                   Get(group_data, "Participants", <<>>), 1, u.obj_pk,
                   [db EXCEPT !.groups = u.rows, !.nextPk.group = u.pk], now)
        IN  IF p.raised THEN p
            ELSE sync_group_list(data, k + 1, i, p.db, synced_count + 1, now)

\* sync_groups with the pruning the code has commented out: the participants
\* of a listed group that its entry no longer names are deactivated
sync_groups_pruning(i, db, gresp, now) ==
    LET data == get_groups(gresp)
    IN  IF data.raised THEN [raised |-> TRUE, exc |-> data.exc, db |-> db]
        ELSE IF data.ret.t = "list"
        THEN LET r == sync_group_list(data.ret.v, 1, i, db, 0, now)
                 current(p) ==
                    \A g \in r.db.groups, k \in DOMAIN data.ret.v :
                       (/\ g.pk = p.group
                        /\ g.whatsapp_instance = i
                        /\ g.group_id = Get(data.ret.v[k], "JID", <<>>)) =>
                          \E n \in DOMAIN Get(data.ret.v[k], "Participants", <<>>) :
                             Get(data.ret.v[k].Participants[n], "JID", <<>>) = p.jid
             IN  IF r.raised THEN r
                 ELSE [raised |-> FALSE, ret |-> r.synced_count,
                       db |-> [r.db EXCEPT !.participants =
                                 {IF current(p) THEN p ELSE [p EXCEPT !.is_active = FALSE] :
                                    p \in r.db.participants}]]
        ELSE [raised |-> FALSE, ret |-> 0, db |-> db]

\* sync_groups counting the rows it created
sync_groups_counting_created(i, db, gresp, now) ==
    LET data == get_groups(gresp)
    IN  IF data.raised THEN [raised |-> TRUE, exc |-> data.exc, db |-> db]
        ELSE IF data.ret.t = "list"
        THEN LET r == sync_group_list(data.ret.v, 1, i, db, 0, now)
             IN  IF r.raised THEN r
                 ELSE [raised |-> FALSE,
                       ret |-> Cardinality(r.db.groups) - Cardinality(db.groups),
                       db |-> r.db]
        ELSE [raised |-> FALSE, ret |-> 0, db |-> db]

sync_groups(i, db, gresp, now) ==
    LET data == get_groups(gresp)
    IN  IF data.raised THEN [raised |-> TRUE, exc |-> data.exc, db |-> db]
        ELSE IF data.ret.t = "list"
        THEN LET r == sync_group_list(data.ret.v, 1, i, db, 0, now)
             IN  IF r.raised THEN r
                 ELSE [raised |-> FALSE, ret |-> r.synced_count, db |-> r.db]
        ELSE [raised |-> FALSE, ret |-> 0, db |-> db]

\* the fields of WhatsAppContact
WhatsAppContactFields ==
    {"id", "whatsapp_instance", "phone_number", "name", "is_business",
     "profile_picture_url", "is_blocked", "is_active", "created_at", "updated_at",
     "last_seen_at"}

\* the lookup keywords of update_or_create: one that names no field of the
\* model raises FieldError
resolve_lookup(key, fields) ==
    IF DOMAIN key \subseteq fields THEN Return(key) ELSE Raise("FieldError")

\* for contact_data in data, from the k-th one on
RECURSIVE sync_contact_list(_, _, _, _, _, _)
sync_contact_list(data, k, i, db, synced_count, now) ==
    IF k > Len(data)
    THEN [raised |-> FALSE, db |-> db, synced_count |-> synced_count]
    ELSE
    LET contact_data == data[k]
        key == resolve_lookup(
                 [instance |-> i,
                  phone_number |-> Remove(Get(contact_data, "id", <<>>), "@c.us")],
                 WhatsAppContactFields)
    IN  IF key.raised THEN [raised |-> TRUE, exc |-> key.exc, db |-> db]
        ELSE
        LET u == update_or_create(
                   db.contacts, db.nextPk.contact, key.ret,
                   [name |-> Get(contact_data, "name", ""),
                    is_business |-> Get(contact_data, "isBusiness", FALSE),
                    profile_picture_url |-> Get(contact_data, "profilePictureUrl", "")],
                   [is_blocked |-> FALSE, is_active |-> TRUE], {"name"}, now)
        IN  IF u.raised THEN [raised |-> TRUE, exc |-> u.exc, db |-> db]
            ELSE sync_contact_list(
                   data, k + 1, i,
                   [db EXCEPT !.contacts = u.rows, !.nextPk.contact = u.pk],
                   synced_count + 1, now)

\* WhatsAppInstanceManager.sync_contacts.  'error' not in data is a key test
\* on a dict, a membership test on a list, and a TypeError on None
sync_contacts(i, db, cresp, now) ==
    LET data == get_contacts(cresp)
    IN  IF data.raised THEN [raised |-> TRUE, exc |-> data.exc, db |-> db]
        ELSE IF data.ret.t \notin {"dict", "list"}
        THEN [raised |-> TRUE, exc |-> "TypeError", db |-> db]
        ELSE IF ~HasKey(data.ret, "error") /\ data.ret.t = "list"
        THEN LET r == sync_contact_list(data.ret.v, 1, i, db, 0, now)
             IN  IF r.raised THEN r
                 ELSE [raised |-> FALSE, ret |-> r.synced_count, db |-> r.db]
        ELSE [raised |-> FALSE, ret |-> 0, db |-> db]

\* the group lists the gateway answers with
OWNER_JID == <<OWNER, WA_SUFFIX>>

pOwner == [JID |-> OWNER_JID, IsAdmin |-> TRUE, DisplayName |-> "Ana"]
pOwnerSuper == [JID |-> OWNER_JID, IsSuperAdmin |-> TRUE]
pLid ==
    [JID |-> <<"77", "@lid">>, PhoneNumber |-> <<"5521888888888", WA_SUFFIX>>,
     IsAdmin |-> TRUE]
pLidOnly == [JID |-> <<"99", "@lid">>]
pNoJid == [DisplayName |-> "ghost"]

gFamily ==
    [JID |-> <<"1203", "@g.us">>, Name |-> "Family", OwnerJID |-> OWNER_JID,
     OwnerIsAdmin |-> TRUE, IsAnnounce |-> TRUE,
     GroupCreated |-> <<"2024-01-01T10:00:00", "Z">>,
     Participants |-> <<pOwner, pLid>>]
gFamilyRenamed ==
    [JID |-> <<"1203", "@g.us">>, Name |-> "Family 2", OwnerJID |-> OWNER_JID,
     GroupCreated |-> <<"yesterday">>, Participants |-> <<pOwnerSuper>>]
gWork ==
    [JID |-> <<"1204", "@g.us">>, Name |-> "Work", OwnerJID |-> <<"88", "@lid">>,
     Participants |-> <<pNoJid, pLid, pLidOnly>>]
gNameless == [JID |-> <<"1205", "@g.us">>, Name |-> None]

GroupLists ==
    {<<>>, <<gFamily>>, <<gFamily, gWork>>, <<gFamily, gFamilyRenamed>>,
     <<gFamilyRenamed, gWork>>, <<gWork, gNameless>>}

GroupsResponses ==
    {TransportFailure("ConnectionError"), HttpResponse(500, TextBody),
     HttpResponse(200, Json(JDict(EmptyDict))),
     HttpResponse(200, Json(JDict([groups |-> JDict(EmptyDict)]))),
     HttpResponse(200, Json(JList(<<gFamily>>)))}
    \cup {HttpResponse(200, Json(JDict([groups |-> JList(l)]))) : l \in GroupLists}

\* the contact lists the gateway answers with
cAna == [id |-> <<"5511999999999", "@c.us">>, name |-> "Ana", isBusiness |-> FALSE]
cBob == [id |-> <<"5521888888888", "@c.us">>, name |-> "Bob", isBusiness |-> TRUE]

ContactsResponses ==
    {HttpResponse(500, TextBody), HttpResponse(200, Json(JDict(EmptyDict))),
     HttpResponse(200, Json(JNone)), HttpResponse(200, Json(JList(<<>>))),
     HttpResponse(200, Json(JList(<<cAna, cBob>>)))}

\* the answers drawn for a batched sync
BatchGroupsResponses ==
    {HttpResponse(500, TextBody),
     HttpResponse(200, Json(JDict([groups |-> JNone]))),
     HttpResponse(200, Json(JDict([groups |-> JList(<<gFamily>>)]))),
     HttpResponse(200, Json(JDict([groups |-> JList(<<gWork, gNameless>>)])))}

BatchStatusResponses ==
    {TransportFailure("Timeout"),
     HttpResponse(200, Json(JDict([instance |->
        [status |-> "connected", owner |-> OWNER, profilePictureUrl |-> PICTURE]]))),
     HttpResponse(200, Json(JDict([instance |->
        [status |-> "connected", profilePictureUrl |-> PICTURE]])))}

SyncTypes == {"all", "groups", "contacts", "status"}

\* the result entry of one operation of the batch: try / except Exception
ResultEntry(r, synced) ==
    IF r.raised THEN [success |-> FALSE, error |-> r.exc]
    ELSE [success |-> TRUE, synced |-> synced]

\* JsonResponse(...): json.dumps raises TypeError on a value that holds a
\* model instance, as the (bool, instance) pair sync_instance_status returns
json_response(results) ==
    IF "status" \in DOMAIN results /\ results.status.success
    THEN Raise("TypeError") ELSE Return(results)

\* sync_whatsapp_data_ajax: 400 unless the instance is connected; then the
\* operations sync_type names run in turn (groups, contacts, status), each in
\* its own try / except, and the results are answered together; an exception
\* of the answer itself is caught by the view's outer except and answered
\* with 500.  A response of an operation that does not run is NoRequest.
SyncDataAjax(u, i, sync_type, gresp, cresp, sresp) ==
    /\ i \in InstancesOf(u)
    /\ clock < MaxSyncs
    /\ clock' = clock + 1
    /\ IF ~is_connected(inst[i])
       THEN /\ UNCHANGED <<inst, groups, participants, contacts, nextPk, uuid4, queue, procs, scheduled>>
            /\ last' = [op |-> "sync_data", user |-> u, id |-> i, type |-> sync_type,
                        resp |-> gresp, http |-> 400, repeat |-> FALSE]
       ELSE LET db0 == [groups |-> groups, participants |-> participants,
                        contacts |-> contacts, nextPk |-> nextPk]
                skipped == [raised |-> FALSE, ret |-> 0, db |-> db0]
            IN  \E g \in {IF sync_type \in {"all", "groups"}
                          THEN sync_groups(i, db0, gresp, clock + 1) ELSE skipped} :
                \E c \in {IF sync_type \in {"all", "contacts"}
                          THEN sync_contacts(i, g.db, cresp, clock + 1)
                          ELSE [skipped EXCEPT !.db = g.db]} :
                \E s \in {IF sync_type \in {"all", "status"}
                          THEN sync_instance_status(inst[i], inst[i], sresp)
                          ELSE [raised |-> FALSE, success |-> FALSE, db |-> inst[i]]} :
                \E results \in {
                        (IF sync_type \in {"all", "groups"}
                         THEN [groups |-> ResultEntry(g, g.ret)] ELSE <<>>)
                        @@ (IF sync_type \in {"all", "contacts"}
                            THEN [contacts |-> ResultEntry(c, c.ret)] ELSE <<>>)
                        @@ (IF sync_type \in {"all", "status"}
                            THEN [status |->
                                    IF s.raised
                                    THEN [success |-> FALSE, error |-> "IntegrityError"]
                                    ELSE [success |-> TRUE,
                                          synced |-> <<s.success, s.obj>>]]
                            ELSE <<>>)} :
                /\ groups' = c.db.groups
                /\ participants' = c.db.participants
                /\ contacts' = c.db.contacts
                /\ nextPk' = c.db.nextPk
                /\ inst' = [inst EXCEPT ![i] = s.db]
                /\ last' =
                     [op |-> "sync_data", user |-> u, id |-> i, type |-> sync_type,
                      resp |-> gresp, cresp |-> cresp, sresp |-> sresp,
                      http |-> IF json_response(results).raised THEN 500 ELSE 200,
                      repeat |-> /\ last.op = "sync_data"
                                 /\ last.http # 400
                                 /\ last.id = i
                                 /\ last.resp = gresp
                                 /\ sync_type \in {"all", "groups"}
                                 /\ last.type \in {"all", "groups"},
                      before |-> db0, results |-> results]
    /\ UNCHANGED <<subs, uuid4, queue, procs, scheduled>>

(***************************************************************************)
(* sync_groups run by several workers at once.  Each update_or_create is   *)
(* two database steps, the SELECT and the INSERT or UPDATE, and the steps  *)
(* of the workers interleave (the code opens no transaction of its own).   *)
(***************************************************************************)
no_unique_conflict(rows, key) == FALSE

\* unique_together: the INSERT of a row whose key a stored row has is refused
unique_conflict(rows, key) ==
    \E r \in rows : \A f \in DOMAIN key : r[f] = key[f]

\* the second step of update_or_create, found being what its SELECT saw (0:
\* no row).  The INSERT of a key that another worker has stored meanwhile
\* raises IntegrityError inside get_or_create, which then reads the stored
\* row: the row is updated, as it is when the SELECT had found it.
update_or_create_write(found, rows, pk, a, now) ==
    IF found = 0 /\ ~unique_conflict(rows, a.key)
    THEN IF \E f \in a.notnull : a.defaults[f] = None
         THEN [raised |-> TRUE, exc |-> "IntegrityError"]
         ELSE [raised |-> FALSE,
               rows |-> rows \cup {a.defaults @@ a.key @@ a.fresh @@
                                   [pk |-> pk, created_at |-> Time(now),
                                    updated_at |-> Time(now)]},
               pk |-> pk + 1, obj_pk |-> pk]
    ELSE update_or_create(rows, pk, a.key, a.defaults, a.fresh, a.notnull, now)

\* the group lists drawn for concurrent runs: a group id and a participant
\* JID listed twice, and a participant without a JID
RaceLists ==
    {<<gFamilyRenamed, [gFamily EXCEPT !.Participants = <<pOwner>>]>>,
     <<[gWork EXCEPT !.Participants = <<pNoJid, pLidOnly>>]>>}

\* where a run stands: entry g of data, its group (n = 0) or its n-th
\* participant; the position after it, or Idle after the last one
sync_groups_advance(w) ==
    LET parts == Get(w.data[w.g], "Participants", <<>>)
    IN  IF w.n < Len(parts) THEN [w EXCEPT !.n = w.n + 1, !.phase = "get"]
        ELSE IF w.g < Len(w.data)
        THEN [w EXCEPT !.g = w.g + 1, !.n = 0, !.phase = "get"]
        ELSE Idle

\* sync_whatsapp_data_ajax for groups up to the answer of get_groups
SyncGroupsStart(p, u, i, gresp) ==
    /\ procs[p] = Idle
    /\ clock < MaxSyncs
    /\ clock' = clock + 1
    /\ i \in InstancesOf(u)
    /\ is_connected(inst[i])
    /\ LET data == get_groups(gresp)
           runs == ~data.raised /\ data.ret.t = "list" /\ Len(data.ret.v) > 0
       IN  /\ procs' = [procs EXCEPT ![p] =
                          IF runs
                          THEN [op |-> "sync_groups", id |-> i, data |-> data.ret.v,
                                g |-> 1, n |-> 0, phase |-> "get", found |-> 0,
                                group_pk |-> 0]
                          ELSE Idle]
           /\ last' = [op |-> "sync_groups_start", id |-> i, runs |-> runs]
    /\ UNCHANGED <<inst, subs, groups, participants, contacts, nextPk, uuid4,
                   queue, scheduled>>

\* the SELECT of the update_or_create the run has reached; a participant
\* without a JID is passed over
SyncGroupsGet(p) ==
    /\ procs[p].op = "sync_groups" /\ procs[p].phase = "get"
    /\ LET w == procs[p]
           group_data == w.data[w.g]
           a == IF w.n = 0 THEN group_upsert(w.id, group_data, clock)
                ELSE participant_upsert(w.group_pk, group_data.Participants[w.n])
           rows == IF w.n = 0 THEN groups ELSE participants
           found == {r \in rows : \A f \in DOMAIN a.key : r[f] = a.key[f]}
       IN  /\ procs' = [procs EXCEPT ![p] =
                          IF w.n > 0 /\ a.key.jid = <<>> THEN sync_groups_advance(w)
                          ELSE IF Cardinality(found) > 1 THEN Idle
                          ELSE [w EXCEPT !.phase = "write",
                                         !.found = IF found = {} THEN 0
                                                   ELSE (CHOOSE r \in found : TRUE).pk]]
           /\ last' = [op |-> "sync_groups_get", id |-> w.id,
                       raised |-> Cardinality(found) > 1]
    /\ UNCHANGED <<inst, subs, clock, groups, participants, contacts, nextPk, uuid4,
                   queue, scheduled>>

\* its INSERT or UPDATE; an exception ends the run and keeps what was written
SyncGroupsWrite(p) ==
    /\ procs[p].op = "sync_groups" /\ procs[p].phase = "write"
    /\ LET w == procs[p]
           group_data == w.data[w.g]
           a == IF w.n = 0 THEN group_upsert(w.id, group_data, clock)
                ELSE participant_upsert(w.group_pk, group_data.Participants[w.n])
           rows == IF w.n = 0 THEN groups ELSE participants
           pk == IF w.n = 0 THEN nextPk.group ELSE nextPk.participant
       IN  \E r \in {update_or_create_write(w.found, rows, pk, a, clock)} :
             /\ IF r.raised
                THEN UNCHANGED <<groups, participants, nextPk>>
                ELSE IF w.n = 0
                THEN /\ groups' = r.rows
                     /\ nextPk' = [nextPk EXCEPT !.group = r.pk]
                     /\ UNCHANGED participants
                ELSE /\ participants' = r.rows
                     /\ nextPk' = [nextPk EXCEPT !.participant = r.pk]
                     /\ UNCHANGED groups
             /\ procs' = [procs EXCEPT ![p] =
                            IF r.raised THEN Idle
                            ELSE sync_groups_advance(
                                   IF w.n = 0 THEN [w EXCEPT !.group_pk = r.obj_pk]
                                   ELSE w)]
             /\ last' = [op |-> "sync_groups_write", id |-> w.id,
                         raised |-> r.raised,
                         conflict |-> w.found = 0 /\ unique_conflict(rows, a.key)]
    /\ UNCHANGED <<inst, subs, clock, contacts, uuid4, queue, scheduled>>

(***************************************************************************)
(* Requests on the same instance served at once.  A request loads the      *)
(* instance, waits for the gateway, changes its in-memory object and saves *)
(* it: Model.save() writes every column of the object.  No lock, no        *)
(* transaction and no update_fields restrict the write.                    *)
(***************************************************************************)
InstanceOps == {"status", "connect", "disconnect"}

\* the operation run on the row as it is stored now, not on the object loaded
instance_op_on_stored_row(kind, obj, db, resp, sresp, now) ==
    CASE kind = "status" -> sync_instance_status(db, db, resp).db
      [] kind = "connect" ->
           LET c == web_connect_action(db, db, resp)
           IN  refresh_status(c.obj, c.db, sresp)
      [] kind = "disconnect" ->
           LET c == web_disconnect_action(db, db, resp, now)
           IN  refresh_status(c.obj, c.db, sresp)

\* what the request stores: the status endpoint runs sync_instance_status, the
\* web actions their try block and then the status refresh; obj is the object
\* the request loaded, db the row stored when the gateway answers
instance_op(kind, obj, db, resp, sresp, now) ==
    CASE kind = "status" -> sync_instance_status(obj, db, resp).db
      [] kind = "connect" ->
           LET c == web_connect_action(obj, db, resp)
           IN  refresh_status(c.obj, c.db, sresp)
      [] kind = "disconnect" ->
           LET c == web_disconnect_action(obj, db, resp, now)
           IN  refresh_status(c.obj, c.db, sresp)

\* the request has loaded the instance and sent its gateway request
InstanceOpBegin(p, u, kind) ==
    /\ procs[p] = Idle
    /\ InstancesOf(u) # {}
    /\ clock < MaxSyncs
    /\ clock' = clock + 1
    /\ procs' = [procs EXCEPT ![p] =
                   [op |-> "instance_op", kind |-> kind, id |-> First(u),
                    obj |-> inst[First(u)]]]
    /\ UNCHANGED <<inst, subs, groups, participants, contacts, nextPk, uuid4, queue,
                   scheduled, last>>

\* the gateway has answered: the rest of the request
InstanceOpFinish(p, resp, sresp) ==
    /\ procs[p].op = "instance_op"
    /\ inst[procs[p].id] # NoRow
    /\ LET w == procs[p]
       IN  /\ inst' = [inst EXCEPT ![w.id] =
                         instance_op(w.kind, w.obj, inst[w.id], resp, sresp, clock)]
           /\ last' = [op |-> "instance_op", kind |-> w.kind, id |-> w.id,
                       resp |-> resp, sresp |-> sresp, obj |-> w.obj,
                       before |-> inst[w.id], now |-> clock]
    /\ procs' = [procs EXCEPT ![p] = Idle]
    /\ UNCHANGED <<subs, clock, groups, participants, contacts, nextPk, uuid4, queue,
                   scheduled>>

(***************************************************************************)
(* The router's "instance" route: AllWhatsappInstanceActivateView, a       *)
(* ModelViewSet whose queryset is WhatsAppInstance.objects.all()           *)
(***************************************************************************)
\* list (GET instance/): every row of the table is serialised; ids are the
\* instances the answer shows.  get_instances_details and dashboard_summary
\* read the whole table in the same way.
AllInstancesList(u) ==
    /\ last' = [op |-> "all_instances_list", user |-> u, ids |-> ExistingIds]
    /\ UNCHANGED <<inst, subs, clock, groups, participants, contacts, nextPk, uuid4,
                   queue, procs, scheduled>>

\* destroy (DELETE instance/<pk>/): get_object() on the unfiltered queryset,
\* then instance.delete()
AllInstancesDestroy(u, pk) ==
    /\ pk \in ExistingIds
    /\ DeleteRows(pk)
    /\ last' = [op |-> "all_instances_destroy", user |-> u, ids |-> {pk}]
    /\ UNCHANGED <<subs, clock, nextPk, uuid4, queue, procs, scheduled>>

(***************************************************************************)
(* Sending messages.  calls lists the gateway requests a request makes.    *)
(***************************************************************************)
\* SendTextMessageView, SendMediaMessageView, SendLocationMessageView,
\* SendContactMessageView, SendMenuMessageView, BulkSendView: the operation
\* each of them calls
SendOperations ==
    {"send_text_message", "send_media_message", "send_location_message",
     "send_contact_message", "send_menu_message", "send_bulk_message"}

\* post of the six views (valid body): get_object_or_404 on the user's
\* instances, then the gateway operation; 200 when it succeeds (success, or a
\* result without "error"), 400 otherwise, 500 when it raises.  The status of
\* the instance is never read.
RestSend(u, pk, operation, resp) ==
    /\ IF pk \notin InstancesOf(u)
       THEN last' = [op |-> "rest_send", user |-> u, id |-> pk,
                     operation |-> operation, http |-> 404, calls |-> <<>>]
       ELSE \E r \in {GatewayClient(operation, resp)} :
              last' = [op |-> "rest_send", user |-> u, id |-> pk,
                       operation |-> operation, resp |-> resp,
                       http |-> IF r.raised THEN 500
                                ELSE IF operation \in PairOperations
                                THEN (IF r.ret[1] THEN 200 ELSE 400)
                                ELSE (IF HasKey(r.ret, "error") THEN 400 ELSE 200),
                       calls |-> <<operation>>]
    /\ UNCHANGED <<inst, subs, clock, groups, participants, contacts, nextPk, uuid4,
                   queue, procs, scheduled>>

\* send_message_view, POST of a valid text form to recipients numbers (the
\* form offers the user's instances only): nothing is sent through an
\* instance that is not connected nor without recipients; otherwise one
\* send_text_message per recipient
WebSendMessage(u, pk, recipients, resp) ==
    /\ pk \in InstancesOf(u)
    /\ last' = [op |-> "web_send", user |-> u, id |-> pk, resp |-> resp,
                calls |-> IF ~is_connected(inst[pk]) THEN <<>>
                          ELSE [k \in 1..recipients |-> "send_text_message"],
                success_count |->
                  IF ~is_connected(inst[pk]) THEN 0
                  ELSE LET r == send_text_message(resp)
                       IN  IF ~r.raised /\ r.ret[1] THEN recipients ELSE 0]
    /\ UNCHANGED <<inst, subs, clock, groups, participants, contacts, nextPk, uuid4,
                   queue, procs, scheduled>>

(***************************************************************************)
(* Scheduled messages: the cancel view                                     *)
(***************************************************************************)
\* the ScheduledMessage rows of the store
MaxMsgs == 2

\* ScheduledMessage.STATUS_CHOICES
MessageStatuses == {"pending", "scheduled", "sending", "sent", "failed", "cancelled"}

can_be_cancelled_unless_done(message) ==
    message.status \notin {"sent", "failed", "cancelled"}

\* ScheduledMessage.can_be_cancelled
can_be_cancelled(message) == message.status \in {"pending", "scheduled"}

\* cancel_scheduled_message: objects.get(id=message_id, user=request.user)
\* (DoesNotExist for an unknown id and for the message of another user), then
\* status = "cancelled" and save() when the message can be cancelled; the
\* view redirects to the list in every case
CancelScheduledMessage(u, message_id) ==
    /\ LET found == message_id \in DOMAIN scheduled
                      /\ scheduled[message_id].user = u
           cancels == found /\ can_be_cancelled(scheduled[message_id])
       IN  /\ scheduled' = IF cancels
                           THEN [scheduled EXCEPT ![message_id].status = "cancelled"]
                           ELSE scheduled
           /\ last' = [op |-> "cancel_scheduled_message", user |-> u,
                       id |-> message_id, found |-> found,
                       message |-> IF cancels
                                   THEN "Mensagem agendada cancelada com sucesso!"
                                   ELSE IF found
                                   THEN "Esta mensagem nao pode ser cancelada."
                                   ELSE "Mensagem agendada nao encontrada."]
    /\ UNCHANGED <<inst, subs, clock, groups, participants, contacts, nextPk, uuid4,
                   queue, procs>>

(***************************************************************************)
(* The REST endpoints that hand a synchronisation to the RQ worker         *)
(***************************************************************************)
\* at most MaxJobs jobs wait in the queue
MaxJobs == 2

SyncKinds == {"groups", "contacts", "status"}

\* the dotted name each view passes to queue.enqueue
sync_job_name(kind) ==
    CASE kind = "groups"   -> "apps.scheduling.tasks.sync_whatsapp_groups"
      [] kind = "contacts" -> "apps.scheduling.tasks.sync_whatsapp_contacts"
      [] kind = "status"   -> "apps.scheduling.tasks.sync_whatsapp_instance_status"

enqueue_twice(q, func, arg) ==
    LET job == [id |-> Len(q) + 1, func |-> func, args |-> <<arg>>]
    IN  [job |-> job, queue |-> Append(Append(q, job), [job EXCEPT !.id = Len(q) + 2])]

\* queue.enqueue(func, arg): one job, with a fresh id, at the end of the queue
enqueue(q, func, arg) ==
    LET job == [id |-> Len(q) + 1, func |-> func, args |-> <<arg>>]
    IN  [job |-> job, queue |-> Append(q, job)]

\* SyncGroupsView.post, SyncContactsView.post, SyncStatusView.post:
\* get_object_or_404 on the user's instances, the groups and contacts views
\* refuse an instance that is not connected, then the job is enqueued with
\* str(instance.id) and its id returned.  calls lists the gateway requests made.
sync_view_post(u, pk, kind, q) ==
    IF pk \notin InstancesOf(u)
    THEN [http |-> 404, job_id |-> 0, queue |-> q, calls |-> <<>>]
    ELSE IF kind \in {"groups", "contacts"} /\ ~is_connected(inst[pk])
    THEN [http |-> 400, job_id |-> 0, queue |-> q, calls |-> <<>>]
    ELSE LET e == enqueue(q, sync_job_name(kind), ToString(pk))
         IN  [http |-> 200, job_id |-> e.job.id, queue |-> e.queue, calls |-> <<>>]

EnqueueSync(u, pk, kind) ==
    /\ Len(queue) < MaxJobs
    /\ \E r \in {sync_view_post(u, pk, kind, queue)} :
         /\ queue' = r.queue
         /\ last' = [op |-> "enqueue_sync", user |-> u, id |-> pk, kind |-> kind,
                     http |-> r.http, job_id |-> r.job_id, calls |-> r.calls]
    /\ UNCHANGED <<inst, subs, clock, groups, participants, contacts, nextPk, uuid4,
                   procs, scheduled>>

NoCall == [op |-> "none"]


\* the empty store of a fresh deployment; account u1 holds any subscription,
\* account u2 none
Init ==
    /\ inst = [i \in InstIds |-> NoRow]
    /\ subs \in {f \in [Users -> SubscriptionRows] : f["u2"] = NoSub}
    /\ clock = 0
    /\ groups = {}
    /\ participants = {}
    /\ contacts = {}
    /\ nextPk = [group |-> 1, participant |-> 1, contact |-> 1]
    /\ uuid4 = "0a1b2c3d"
    /\ queue = <<>>
    /\ procs = NoProcs
    /\ scheduled = <<>>
    /\ last = NoCall

\* the store once account u1, without a subscription, has created its instance
\* through the web form (the gateway having accepted the creation or not)
InitLifecycle ==
    /\ \E number \in FormNumbers, key \in {"tok"} :
         inst = [i \in InstIds |->
                   IF i = 1
                   THEN [stored(NewInstance("u1", number), "0a1b2c3d")
                           EXCEPT !.api_key = key]
                   ELSE NoRow]
    /\ subs = [u \in Users |-> NoSub]
    /\ clock = 0
    /\ groups = {}
    /\ participants = {}
    /\ contacts = {}
    /\ nextPk = [group |-> 1, participant |-> 1, contact |-> 1]
    /\ uuid4 = "0a1b2c3d"
    /\ queue = <<>>
    /\ procs = NoProcs
    /\ scheduled = <<>>
    /\ last = NoCall

NextLifecycle ==
    \/ \E u \in Users, resp \in ConnectResponses, sresp \in RefreshResponses :
         WebConnect(u, resp, sresp)
    \/ \E u \in Users, resp \in DisconnectResponses, sresp \in RefreshResponses :
         WebDisconnect(u, resp, sresp)
    \/ \E u \in Users, resp \in DeleteResponses :
         \E sresp \in RefreshAfterDelete(resp) : WebDelete(u, resp, sresp)
    \/ \E u \in Users, sresp \in StatusResponses : WebView(u, sresp)
    \/ \E u \in Users, sresp \in StatusResponses : QrCodeAjax(u, sresp)
    \/ \E u \in Users, i \in InstIds, resp \in ConnectResponses :
         RestConnect(u, i, resp)
    \/ \E u \in Users, i \in InstIds, resp \in DisconnectResponses :
         RestDisconnect(u, i, resp)
    \/ \E u \in Users, i \in InstIds, sresp \in StatusResponses :
         RestStatus(u, i, sresp)
    \/ \E u \in Users, i \in InstIds : RestDestroy(u, i)
    \/ \E i \in InstIds, st \in STATUS_CHOICES : AdminChange(i, st)

\* the lifecycle of an instance
Spec == InitLifecycle /\ [][NextLifecycle]_vars

NextQuota ==
    \/ \E u \in Users, new \in BOOLEAN, number \in FormNumbers,
          cresp \in CreateResponses :
         WebCreateInstance(u, new, number, cresp)
    \/ \E u \in Users, number \in FormNumbers, cresp \in CreateResponses :
         RestCreate(u, number, cresp)
    \/ \E u \in Users, resp \in DeleteResponses :
         \E sresp \in RefreshAfterDelete(resp) : WebDelete(u, resp, sresp)
    \/ \E u \in Users, i \in InstIds : RestDestroy(u, i)

\* creation and deletion of instances under the plan quota
SpecQuota == Init /\ [][NextQuota]_vars

NextGateway ==
    \E op \in GatewayOperations, resp \in GatewayResponses : GatewayCall(op, resp)

\* the Gateway Client, one call at a time
SpecGateway == InitLifecycle /\ [][NextGateway]_vars

\* two accounts with one instance each, the first one connected
InitSync ==
    /\ \E st \in {"connected", "disconnected"} :
         inst = [i \in InstIds |->
                   IF i = 1
                   THEN [stored(NewInstance("u1", OWNER), "0a1b2c3d")
                           EXCEPT !.status = "connected"]
                   ELSE IF i = 2
                   THEN [stored(NewInstance("u2", OWNER), "0a1b2c3d")
                           EXCEPT !.status = st]
                   ELSE NoRow]
    /\ subs = [u \in Users |-> NoSub]
    /\ clock = 0
    /\ groups = {}
    /\ participants = {}
    /\ contacts = {}
    /\ nextPk = [group |-> 1, participant |-> 1, contact |-> 1]
    /\ uuid4 = "0a1b2c3d"
    /\ queue = <<>>
    /\ procs = NoProcs
    /\ scheduled = <<>>
    /\ last = NoCall

NextSync ==
    \E u \in Users, i \in InstIds, gresp \in GroupsResponses :
       SyncDataAjax(u, i, "groups", gresp, NoRequest, NoRequest)

\* the reconciliation of the groups of an instance
SpecSync == InitSync /\ [][NextSync]_vars

\* the empty store; account u1, the one that acts, holds an active plan of
\* MaxPlan instances
InitIdentity ==
    /\ inst = [i \in InstIds |-> NoRow]
    /\ subs = [u \in Users |->
                 IF u = "u1"
                 THEN [exists |-> TRUE, status |-> "active",
                       max_whatsapp_instances |-> MaxPlan]
                 ELSE NoSub]
    /\ clock = 0
    /\ groups = {}
    /\ participants = {}
    /\ contacts = {}
    /\ nextPk = [group |-> 1, participant |-> 1, contact |-> 1]
    /\ uuid4 = "0a1b2c3d"
    /\ queue = <<>>
    /\ procs = NoProcs
    /\ scheduled = <<>>
    /\ last = NoCall

\* the answers drawn while the identity of the instances is followed
IdentityConnectResponses ==
    {HttpResponse(500, TextBody),
     HttpResponse(200, Json(JDict([instance |->
                                     [status |-> "connecting", paircode |-> PAIRCODE]])))}

IdentityStatusResponses ==
    {TransportFailure("Timeout"),
     HttpResponse(200, Json(JDict([instance |->
        [status |-> "connected", owner |-> OWNER, profilePictureUrl |-> PICTURE]])))}

NextIdentity ==
    \/ \E u \in {"u1"}, new \in BOOLEAN, number \in FormNumbers,
          cresp \in CreateResponses :
         WebCreateInstance(u, new, number, cresp)
    \/ \E u \in {"u1"}, number \in FormNumbers, cresp \in CreateResponses :
         RestCreate(u, number, cresp)
    \/ \E u \in {"u1"}, resp \in IdentityConnectResponses,
          sresp \in {TransportFailure("Timeout")} :
         WebConnect(u, resp, sresp)
    \/ \E u \in {"u1"}, resp \in {HttpResponse(200, Json(JDict(EmptyDict)))},
          sresp \in {TransportFailure("Timeout")} :
         WebDisconnect(u, resp, sresp)
    \/ \E u \in {"u1"}, i \in InstIds, sresp \in IdentityStatusResponses :
         RestStatus(u, i, sresp)
    \/ \E u \in {"u1"}, i \in InstIds : RestDestroy(u, i)

\* the identity and the gateway configuration of the instances, from their
\* creation on
SpecIdentity == InitIdentity /\ [][NextIdentity]_vars

NextBatch ==
    \E u \in Users, i \in InstIds, sync_type \in SyncTypes :
       \E gresp \in (IF sync_type \in {"all", "groups"}
                     THEN BatchGroupsResponses ELSE {NoRequest}),
          cresp \in (IF sync_type \in {"all", "contacts"}
                     THEN ContactsResponses ELSE {NoRequest}),
          sresp \in (IF sync_type \in {"all", "status"}
                     THEN BatchStatusResponses ELSE {NoRequest}) :
         SyncDataAjax(u, i, sync_type, gresp, cresp, sresp)

\* the batched synchronisation of groups, contacts and status
SpecBatch == InitSync /\ [][NextBatch]_vars

\* the store of InitSync in which the instance of account u1 alone is connected
InitOneConnected == InitSync /\ inst[2].status = "disconnected"

\* account u1 alone acts: the quota of an account counts its own rows only
NextCreateRace ==
    \/ \E new \in BOOLEAN, number \in FormNumbers, cresp \in CreateResponses :
         WebCreateInstance("u1", new, number, cresp)
    \/ \E p \in Procs, new \in BOOLEAN, number \in FormNumbers :
         WebCreateBegin(p, "u1", new, number)
    \/ \E p \in Procs, cresp \in CreateResponses : WebCreateFinish(p, cresp)
    \/ \E i \in InstIds : RestDestroy("u1", i)

\* the web create action served by concurrent workers
SpecCreateRace == Init /\ [][NextCreateRace]_vars

SyncRaceResponses ==
    {HttpResponse(500, TextBody)}
    \cup {HttpResponse(200, Json(JDict([groups |-> JList(l)]))) : l \in RaceLists}

NextSyncRace ==
    \/ \E p \in Procs, gresp \in SyncRaceResponses :
         SyncGroupsStart(p, "u1", 1, gresp)
    \/ \E p \in Procs : SyncGroupsGet(p)
    \/ \E p \in Procs : SyncGroupsWrite(p)

\* sync_groups run by concurrent workers for the instance of account u1
SpecSyncRace == InitOneConnected /\ [][NextSyncRace]_vars

NextStale ==
    \/ \E p \in Procs, kind \in InstanceOps : InstanceOpBegin(p, "u1", kind)
    \/ \E p \in Procs :
         \E resp \in (CASE procs[p].op # "instance_op" -> {}
                        [] OTHER ->
                           CASE procs[p].kind = "status" -> StatusResponses
                             [] procs[p].kind = "connect" -> ConnectResponses
                             [] procs[p].kind = "disconnect" -> DisconnectResponses),
            sresp \in (IF procs[p].op = "instance_op" /\ procs[p].kind # "status"
                        THEN RefreshResponses ELSE {NoRequest}) :
           InstanceOpFinish(p, resp, sresp)

\* status synchronisation, connect and disconnect of one instance, served by
\* concurrent workers
SpecStale == InitOneConnected /\ [][NextStale]_vars

\* the scheduled messages of the two accounts, in any status (the worker that
\* sends them moves them through the statuses)
InitSchedule ==
    /\ inst = [i \in InstIds |-> NoRow]
    /\ subs = [u \in Users |-> NoSub]
    /\ clock = 0
    /\ groups = {}
    /\ participants = {}
    /\ contacts = {}
    /\ nextPk = [group |-> 1, participant |-> 1, contact |-> 1]
    /\ uuid4 = "0a1b2c3d"
    /\ queue = <<>>
    /\ procs = NoProcs
    /\ scheduled \in [1..MaxMsgs -> [user : Users, status : MessageStatuses]]
    /\ last = NoCall

\* message_id ranges over the stored ids and one that is not stored
NextSchedule ==
    \E u \in Users, message_id \in 1..(MaxMsgs + 1) :
       CancelScheduledMessage(u, message_id)

\* the cancellation of scheduled messages
SpecSchedule == InitSchedule /\ [][NextSchedule]_vars

NextTenant ==
    \/ \E u \in Users : AllInstancesList(u)
    \/ \E u \in Users, pk \in InstIds : AllInstancesDestroy(u, pk)
    \/ \E u \in Users, i \in InstIds : RestDestroy(u, i)
    \/ \E u \in Users, i \in InstIds, sresp \in StatusResponses :
         RestStatus(u, i, sresp)

\* two accounts and the REST routes that read, change and delete instances
SpecTenant == InitSync /\ [][NextTenant]_vars

NextSend ==
    \/ \E u \in Users, pk \in InstIds, operation \in SendOperations,
          resp \in GatewayResponses :
         RestSend(u, pk, operation, resp)
    \/ \E u \in Users, pk \in InstIds, recipients \in 0..2,
          resp \in GatewayResponses :
         WebSendMessage(u, pk, recipients, resp)

\* the entry points that send messages
SpecSend == InitSync /\ [][NextSend]_vars

NextJobs ==
    \/ \E u \in Users, pk \in InstIds, kind \in SyncKinds : EnqueueSync(u, pk, kind)
    \/ \E i \in InstIds, st \in STATUS_CHOICES : AdminChange(i, st)

\* the endpoints that enqueue a synchronisation, while instances change status
SpecJobs == InitSync /\ [][NextJobs]_vars

(***************************************************************************)
(* Properties.  last describes the request handled by the step that led to *)
(* the state; in an action formula last' describes the step itself.        *)
(***************************************************************************)
\* a row without the fields named in stamps
Without(row, stamps) == [f \in (DOMAIN row) \ stamps |-> row[f]]

Strip(rows, stamps) == {Without(r, stamps) : r \in rows}

OneRowPerKey(rows, key) ==
    \A r1, r2 \in rows : (\A f \in key : r1[f] = r2[f]) => r1 = r2

\* C1, as amended: a second sync_groups in a row for the same instance with
\* the same gateway answer adds no group and no participant row (one row per
\* (instance, group_id) and per (group, jid)), reports the same count (or the
\* same exception) and leaves every field as the first call left it, except
\* the stamps last_synced_at and updated_at, which every save renews.
C1_SyncGroupsIdempotent ==
    [][(last'.op = "sync_data" /\ last'.repeat) =>
          /\ Strip(groups', {"last_synced_at", "updated_at"})
               = Strip(groups, {"last_synced_at", "updated_at"})
          /\ Strip(participants', {"updated_at"}) = Strip(participants, {"updated_at"})
          /\ Cardinality(groups') = Cardinality(groups)
          /\ Cardinality(participants') = Cardinality(participants)
          /\ last'.results.groups = last.results.groups
          /\ OneRowPerKey(groups', {"whatsapp_instance", "group_id"})
          /\ OneRowPerKey(participants', {"group", "jid"})]_vars

\* C1 witness: the same list of two groups has been synced twice in a row,
\* and the second call has updated the rows of the first.
C1_Witness ==
    /\ last.op = "sync_data"
    /\ last.repeat
    /\ last.results.groups = [success |-> TRUE, synced |-> 2]
    /\ participants # {}
    /\ \E g \in groups : g.whatsapp_instance = last.id /\ g.updated_at # g.created_at

\* C1, as stated: after the second call every field other than last_synced_at
\* is as the first call left it.
C1_AsStated ==
    [][(last'.op = "sync_data" /\ last'.repeat) =>
          /\ Strip(groups', {"last_synced_at"}) = Strip(groups, {"last_synced_at"})
          /\ participants' = participants
          /\ last'.results.groups = last.results.groups]_vars

IsCreation == last.op \in {"web_create", "rest_create"} /\ ~last.update

\* C2: a creation attempt made when the account holds at least as many
\* instances as its plan allows creates no row, on the web create_instance
\* action and on the REST create alike.
C2_QuotaOnEveryEntryPoint ==
    (IsCreation /\ last.count >= last.max) => ExistingIds = last.before

\* the requests whose whole effect on the row is sync_instance_status
SyncOps == {"web_view", "qr_code_ajax", "rest_status"}

\* the status answer is one sync_instance_status acts on
StatusAccepted(resp) ==
    LET r == get_instance_status(resp)
    IN  ~r.raised /\ r.ret[1] /\ HasKey(r.ret[2], "instance")

InstanceData(resp) == get_instance_status(resp).ret[2].v.instance

\* C3, as amended: when the status answer has a qrcode key and the remote
\* status does not map to connected, the local status becomes qr_code and the
\* qrcode value is stored, whatever the local status was (connected
\* included); when the remote status maps to connected the QR code neither
\* overrides the status nor is stored.
C3_QrPrecedenceOverMappedStatus ==
    [][(/\ last'.op \in SyncOps
        /\ StatusAccepted(last'.resp)
        /\ "qrcode" \in DOMAIN InstanceData(last'.resp)) =>
          LET d == InstanceData(last'.resp)
              i == last'.id
          IN  IF MappedStatus(Get(d, "status", None)) # "connected"
              THEN inst'[i].status = "qr_code" /\ inst'[i].qr_code = d.qrcode
              ELSE /\ inst'[i] = inst[i] \/ inst'[i].status = "connected"
                   /\ inst'[i].qr_code = inst[i].qr_code]_vars

\* C3 witness: a sync answered with remote status connecting and a QR code
\* has left the instance in qr_code with the QR stored.
C3_Witness ==
    /\ last.op \in SyncOps
    /\ StatusAccepted(last.resp)
    /\ Get(InstanceData(last.resp), "status", None) = "connecting"
    /\ Get(InstanceData(last.resp), "qrcode", None) = QR
    /\ inst[last.id].status = "qr_code"
    /\ inst[last.id].qr_code = QR

\* C3, as stated: a QR code in the answer makes the status qr_code and is
\* stored when the local status is not connected, and does not override a
\* local status that is connected.
C3_AsStated ==
    [][(/\ last'.op \in SyncOps
        /\ StatusAccepted(last'.resp)
        /\ Truthy(Get(InstanceData(last'.resp), "qrcode", None))) =>
          LET d == InstanceData(last'.resp)
              i == last'.id
          IN  IF inst[i].status # "connected"
              THEN inst'[i].status = "qr_code" /\ inst'[i].qr_code = d.qrcode
              ELSE inst'[i].status # "qr_code"]_vars

\* C4: a successful status answer without a QR code sets the local status to
\* connected for remote open or connected, to connecting for remote
\* connecting, and to disconnected for any other or absent remote status,
\* whatever the local status was.
C4_StatusMapping ==
    [][(/\ last'.op \in SyncOps
        /\ StatusAccepted(last'.resp)
        /\ ~Truthy(Get(InstanceData(last'.resp), "qrcode", None))) =>
          inst'[last'.id].status
            = MappedStatus(Get(InstanceData(last'.resp), "status", None))]_vars

ConnectSucceeds(resp) ==
    LET r == connect_instance(resp) IN ~r.raised /\ r.ret[1]

\* the pairing code of a connect answer the view reads, or ""
PairingCodeOf(resp) ==
    LET result == connect_instance(resp).ret[2]
        instance_data == IF HasKey(result, "instance") THEN result.v.instance
                         ELSE EmptyDict
    IN  IF Get(instance_data, "status", None) = "connecting"
        THEN Get(instance_data, "paircode", "") ELSE ""

\* C5: on the web connect action and on the REST connect endpoints, when the
\* gateway accepts the connect, the handler stores status connecting, or
\* pairing_code with the code when the answer carries a pairing code.
C5_ConnectOnEveryEntryPoint ==
    (last.op \in {"web_connect", "rest_connect"} /\ ConnectSucceeds(last.resp)) =>
        IF Truthy(PairingCodeOf(last.resp))
        THEN /\ last.saved.status = "pairing_code"
             /\ last.saved.pairing_code = PairingCodeOf(last.resp)
        ELSE last.saved.status = "connecting"

DisconnectSucceeds(resp) ==
    LET r == disconnect_instance(resp) IN ~r.raised /\ r.ret[1]

\* C6: on the web disconnect action and on the REST disconnect endpoints,
\* when the gateway accepts the disconnect, the handler stores status
\* disconnected, empties phone_number and qr_code and stamps
\* last_disconnected_at.
C6_DisconnectOnEveryEntryPoint ==
    (last.op \in {"web_disconnect", "rest_disconnect"} /\ DisconnectSucceeds(last.resp)) =>
        /\ last.saved.status = "disconnected"
        /\ last.saved.phone_number = ""
        /\ last.saved.qr_code = ""
        /\ last.saved.last_disconnected_at = Time(last.now)

\* C7: after a delete action on an existing instance the row is gone, whether
\* the gateway deleted, refused with any body, or could not be reached.
C7_DeleteRemovesRow ==
    last.op = "web_delete" => inst[last.id] = NoRow

\* C7 witness: the gateway refused the delete with a body that is not JSON,
\* and the row is gone.
C7_Witness ==
    /\ last.op = "web_delete"
    /\ last.resp = HttpResponse(500, TextBody)
    /\ inst[last.id] = NoRow

LeavesError(i) ==
    /\ inst[i] # NoRow
    /\ inst[i].status = "error"
    /\ inst'[i] # NoRow
    /\ inst'[i].status # "error"

\* C8, as amended: the status of an instance in error changes only by a web
\* connect or disconnect whose gateway call or closing status refresh
\* succeeds, by a status sync the gateway answers with an instance object, or
\* by an edit in the admin; a failed gateway call leaves error in place, and
\* the REST connect and disconnect never change it.
C8_LeavingError ==
    [][\A i \in InstIds : LeavesError(i) =>
          /\ last'.id = i
          /\ \/ last'.op = "admin_change"
             \/ last'.op \in {"web_view", "rest_status"} /\ StatusAccepted(last'.resp)
             \/ /\ last'.op \in {"web_connect", "web_disconnect"}
                /\ last'.gateway_ok \/ StatusAccepted(last'.sresp)]_vars

\* C8 witness: a status sync has moved an instance out of error.
C8_Witness ==
    /\ last.op \in {"web_view", "rest_status"}
    /\ last.from_error
    /\ inst[last.id].status = "connected"

\* C8, as stated: the status of an instance in error changes only by a
\* connect (an edit in the admin aside).
C8_AsStated ==
    [][\A i \in InstIds : LeavesError(i) =>
          last'.op \in {"web_connect", "rest_connect", "admin_change"}]_vars

\* the answer is a failure of the gateway: no answer at all, or a status
\* outside 2xx other than 409 on connect
IsFailure(operation, resp) ==
    \/ resp.kind = "transport"
    \/ /\ resp.status_code \notin 200..299
       /\ ~(operation = "connect_instance" /\ resp.status_code = 409)

CarriesError(operation, ret) ==
    IF operation \in PairOperations
    THEN ~ret[1] /\ HasKey(ret[2], "error")
    ELSE HasKey(ret, "error")

\* C9: every Gateway Client operation returns for every HTTP status and every
\* transport failure, and a failure yields a payload with an error key (and
\* success false for the operations that return a pair).
C9_FailuresBecomeErrorPayloads ==
    last.op = "gateway_call" =>
        /\ ~last.result.raised
        /\ IsFailure(last.operation, last.resp) =>
             CarriesError(last.operation, last.result.ret)

\* C10: connect_instance returns for HTTP 409 what it returns for HTTP 200
\* with the same body: success with the decoded body.
C10_ConflictIsSuccess ==
    (/\ last.op = "gateway_call"
     /\ last.operation = "connect_instance"
     /\ last.resp.kind = "http"
     /\ last.resp.status_code = 409) =>
        /\ last.result = connect_instance([last.resp EXCEPT !.status_code = 200])
        /\ last.resp.body.content = "json" =>
             last.result = Return(<<TRUE, last.resp.body.value>>)

\* C10 witness: a connect answered 409 with a JSON body has returned success.
C10_Witness ==
    /\ last.op = "gateway_call"
    /\ last.operation = "connect_instance"
    /\ last.resp.kind = "http"
    /\ last.resp.status_code = 409
    /\ last.result.ret[1]
    /\ last.result.ret[2] = last.resp.body.value

\* the Gateway Client has returned something that is not a list
NonList(r) == ~r.raised /\ r.ret.t # "list"

SyncedNothing == [success |-> TRUE, synced |-> 0]

\* C11: when get_groups (get_contacts) answers something that is not a list,
\* sync_groups (sync_contacts) returns 0, raises nothing and writes no Group,
\* GroupParticipant or Contact row.
C11_NonListAnswerSyncsNothing ==
    (last.op = "sync_data" /\ last.http # 400) =>
        /\ ("groups" \in DOMAIN last.results /\ NonList(get_groups(last.resp))) =>
              /\ last.results.groups = SyncedNothing
              /\ groups = last.before.groups
              /\ participants = last.before.participants
        /\ ("contacts" \in DOMAIN last.results /\ NonList(get_contacts(last.cresp))) =>
              /\ last.results.contacts = SyncedNothing
              /\ contacts = last.before.contacts

\* a sync_groups call that got a list from get_groups has just run
SyncedList ==
    /\ last.op = "sync_data"
    /\ last.http # 400
    /\ "groups" \in DOMAIN last.results
    /\ ~get_groups(last.resp).raised
    /\ get_groups(last.resp).ret.t = "list"

GroupList == get_groups(last.resp).ret.v

\* the entry's GroupCreated is absent or does not parse
BadTimestamp(group_data) ==
    \/ "GroupCreated" \notin DOMAIN group_data
    \/ fromisoformat(Replace(group_data.GroupCreated, "Z", "+00:00")).raised

\* the entry cannot be stored: its Name is null, and name is a NOT NULL column
Unstorable(group_data) == Get(group_data, "Name", "") = None

\* the entries the loop reaches: those up to the first one that cannot be stored
Reached(data) == {k \in DOMAIN data : \A j \in 1..(k - 1) : ~Unstorable(data[j])}

\* the row entry k of the list leaves, when no later entry has its JID
RowOf(data, k) ==
    {g \in groups : /\ g.whatsapp_instance = last.id
                    /\ g.group_id = Get(data[k], "JID", <<>>)
                    /\ g.last_synced_at = Time(clock)}

LastOfItsJid(data, k) ==
    \A j \in DOMAIN data : j > k => Get(data[j], "JID", <<>>) # Get(data[k], "JID", <<>>)

\* C12: an entry whose GroupCreated is malformed or absent is upserted with
\* group_created = null, the entries after it are processed, and sync_groups
\* raises only for an entry that cannot be stored, never for a timestamp.
C12_BadTimestampTolerated ==
    SyncedList =>
        /\ \A k \in Reached(GroupList) :
              (BadTimestamp(GroupList[k]) /\ ~Unstorable(GroupList[k])
                 /\ LastOfItsJid(GroupList, k)) =>
                 /\ RowOf(GroupList, k) # {}
                 /\ \A g \in RowOf(GroupList, k) : g.group_created = NoTime
        /\ \A k \in Reached(GroupList) :
              (~Unstorable(GroupList[k]) /\ LastOfItsJid(GroupList, k)) =>
                 RowOf(GroupList, k) # {}
        /\ (\A k \in DOMAIN GroupList : ~Unstorable(GroupList[k])) =>
              last.results.groups = [success |-> TRUE, synced |-> Len(GroupList)]

\* C12 witness: a list whose first entry has a malformed GroupCreated has been
\* synced; both entries have their row, the first with group_created = null.
C12_Witness ==
    /\ SyncedList
    /\ Len(GroupList) = 2
    /\ "GroupCreated" \in DOMAIN GroupList[1]
    /\ BadTimestamp(GroupList[1])
    /\ last.results.groups = [success |-> TRUE, synced |-> 2]
    /\ \E g \in RowOf(GroupList, 1) : g.group_created = NoTime
    /\ RowOf(GroupList, 2) # {}

\* the participant entries of a group entry that carry the owner's JID
OwnerEntries(group_data) ==
    {k \in DOMAIN Get(group_data, "Participants", <<>>) :
        /\ "JID" \in DOMAIN group_data.Participants[k]
        /\ group_data.Participants[k].JID = Get(group_data, "OwnerJID", <<>>)}

Flagged(participant_data, flag) ==
    flag \in DOMAIN participant_data /\ participant_data[flag] = TRUE

\* C13: the row of a group entry has is_admin = true exactly when the entry's
\* OwnerIsAdmin flag is set, or a participant entry with the owner's JID is
\* flagged IsAdmin or IsSuperAdmin.
C13_AdminDerivation ==
    SyncedList =>
        \A k \in Reached(GroupList) :
           (~Unstorable(GroupList[k]) /\ LastOfItsJid(GroupList, k)) =>
              \A g \in RowOf(GroupList, k) :
                 g.is_admin =
                    (\/ Flagged(GroupList[k], "OwnerIsAdmin")
                     \/ \E p \in OwnerEntries(GroupList[k]) :
                           \/ Flagged(GroupList[k].Participants[p], "IsAdmin")
                           \/ Flagged(GroupList[k].Participants[p], "IsSuperAdmin"))

\* C13 witness: one sync has stored a group whose owner is admin only through
\* its IsSuperAdmin participant entry, and a group where another participant
\* than the owner is an admin.
C13_Witness ==
    /\ SyncedList
    /\ Len(GroupList) = 2
    /\ ~Flagged(GroupList[1], "OwnerIsAdmin")
    /\ \E g \in RowOf(GroupList, 1) : g.is_admin
    /\ \E p \in DOMAIN GroupList[2].Participants :
          Flagged(GroupList[2].Participants[p], "IsAdmin")
    /\ \E g \in RowOf(GroupList, 2) : ~g.is_admin

\* the string ends in '@s.whatsapp.net'
EndsInSuffix(str) == str # <<>> /\ str[Len(str)] = WA_SUFFIX

\* the string without its last fragment
WithoutSuffix(str) == SubSeq(str, 1, Len(str) - 1)

\* the participant entries of entry k that leave a row: those with a JID, the
\* last one of each JID
StoredEntries(group_data) ==
    LET ps == Get(group_data, "Participants", <<>>)
    IN  {n \in DOMAIN ps :
           /\ Get(ps[n], "JID", <<>>) # <<>>
           /\ \A m \in DOMAIN ps : m > n => Get(ps[m], "JID", <<>>) # ps[n].JID}

ParticipantRow(g, participant_data) ==
    {p \in participants : p.group = g.pk /\ p.jid = participant_data.JID}

\* what the claim's rule gives for a JID without the suffix: the PhoneNumber
\* field, with the suffix removed or as it is
PhoneOf(participant_data, stripped) ==
    IF EndsInSuffix(participant_data.JID) THEN WithoutSuffix(participant_data.JID)
    ELSE IF "PhoneNumber" \in DOMAIN participant_data
    THEN IF stripped /\ EndsInSuffix(participant_data.PhoneNumber)
         THEN WithoutSuffix(participant_data.PhoneNumber)
         ELSE participant_data.PhoneNumber
    ELSE <<>>

PhoneNumbersStored(stripped) ==
    SyncedList =>
        \A k \in Reached(GroupList) :
           (~Unstorable(GroupList[k]) /\ LastOfItsJid(GroupList, k)) =>
              \A g \in RowOf(GroupList, k) :
                 /\ g.owner_phone_number =
                      (IF EndsInSuffix(Get(GroupList[k], "OwnerJID", <<>>))
                       THEN WithoutSuffix(GroupList[k].OwnerJID) ELSE <<>>)
                 /\ \A n \in StoredEntries(GroupList[k]) :
                       /\ ParticipantRow(g, GroupList[k].Participants[n]) # {}
                       /\ \A p \in ParticipantRow(g, GroupList[k].Participants[n]) :
                             p.phone_number =
                                PhoneOf(GroupList[k].Participants[n], stripped)

\* C14, as amended: a participant whose JID ends in '@s.whatsapp.net' gets the
\* JID without the suffix as phone number, and the group gets its owner phone
\* number from the owner JID likewise (the empty string when the owner JID
\* has no suffix); a JID without the suffix yields the PhoneNumber field with
\* the suffix '@s.whatsapp.net' removed from it if present, else the empty
\* string.
C14_PhoneNumbers == PhoneNumbersStored(TRUE)

\* C14 witness: a group has been stored with its owner phone number, a
\* participant whose phone number comes from its JID, and one whose phone
\* number comes from a PhoneNumber field that carries the suffix.
C14_Witness ==
    /\ SyncedList
    /\ \E g \in groups :
          /\ g.owner_phone_number = <<OWNER>>
          /\ \E p \in participants :
                p.group = g.pk /\ p.jid = OWNER_JID /\ p.phone_number = <<OWNER>>
          /\ \E p \in participants :
                p.group = g.pk /\ p.jid = pLid.JID /\ p.phone_number = <<"5521888888888">>
    /\ \E p \in participants : p.jid = pLidOnly.JID /\ p.phone_number = <<>>

\* C14, as stated: a JID without the suffix yields the PhoneNumber field.
C14_AsStated == PhoneNumbersStored(FALSE)

\* C15: sync_groups never removes or deactivates anything: every Group row
\* and every GroupParticipant row there is before a call is there after it,
\* under the same key, and every participant row stays is_active = true, also
\* the row of a participant the synced list no longer names.
C15_SyncGroupsOnlyAdds ==
    [][last'.op = "sync_data" =>
          /\ \A g \in groups : \E h \in groups' :
                /\ h.pk = g.pk
                /\ h.whatsapp_instance = g.whatsapp_instance
                /\ h.group_id = g.group_id
          /\ \A p \in participants : \E q \in participants' :
                /\ q.pk = p.pk
                /\ q.group = p.group
                /\ q.jid = p.jid
                /\ q.is_active
          /\ \A q \in participants' : q.is_active]_vars

\* C15 witness: a group has been synced again with a list that no longer
\* names one of its participants; the row of that participant is untouched.
C15_Witness ==
    /\ SyncedList
    /\ last.results.groups.success
    /\ \E k \in DOMAIN GroupList : \E g \in RowOf(GroupList, k) :
          \E p \in participants :
             /\ p.group = g.pk
             /\ \A n \in DOMAIN Get(GroupList[k], "Participants", <<>>) :
                   Get(GroupList[k].Participants[n], "JID", <<>>) # p.jid
             /\ p.is_active
             /\ p.updated_at # Time(clock)
             /\ g.participant_count < Cardinality({q \in participants : q.group = g.pk})

\* C16: the number sync_groups returns is the number of entries of the
\* gateway list it went through, whatever the number of participants and of
\* rows created or updated.
C16_CountsGroupEntries ==
    (SyncedList /\ last.results.groups.success) =>
        last.results.groups.synced = Len(GroupList)

\* C16 witness: a list of two entries has been synced, one entry updating a
\* row and the other creating one, with more participant rows than groups.
C16_Witness ==
    /\ SyncedList
    /\ last.results.groups = [success |-> TRUE, synced |-> 2]
    /\ \E g \in RowOf(GroupList, 1) : g.created_at # Time(clock)
    /\ \E g \in RowOf(GroupList, 2) : g.created_at = Time(clock)
    /\ Cardinality(participants) > 2

\* a sync_contacts call that got a list from get_contacts has just run
SyncedContactList ==
    /\ last.op = "sync_data"
    /\ last.http # 400
    /\ "contacts" \in DOMAIN last.results
    /\ ~get_contacts(last.cresp).raised
    /\ get_contacts(last.cresp).ret.t = "list"

ContactList == get_contacts(last.cresp).ret.v

\* the contact id without its last fragment '@c.us'
PhoneOfContact(contact_data) ==
    IF contact_data.id[Len(contact_data.id)] = "@c.us"
    THEN SubSeq(contact_data.id, 1, Len(contact_data.id) - 1) ELSE contact_data.id

\* C17: sync_contacts on a list of N contact entries returns N and leaves, for
\* the instance, exactly one Contact row per distinct phone number of the list,
\* with the name and flags of the (last) entry of that number.
C17_SyncContactsUpserts ==
    SyncedContactList =>
        /\ last.results.contacts = [success |-> TRUE, synced |-> Len(ContactList)]
        /\ \A k \in DOMAIN ContactList :
              (\A j \in DOMAIN ContactList :
                  j > k => PhoneOfContact(ContactList[j]) # PhoneOfContact(ContactList[k]))
              => \E c \in contacts :
                    /\ c.whatsapp_instance = last.id
                    /\ c.phone_number = PhoneOfContact(ContactList[k])
                    /\ c.name = ContactList[k].name
                    /\ c.is_business = ContactList[k].isBusiness
                    /\ \A d \in contacts :
                          (d.whatsapp_instance = last.id
                             /\ d.phone_number = c.phone_number) => d = c

\* the result entry of an operation of the batch run on its own
EntryOf(r) ==
    IF r.raised THEN [success |-> FALSE, error |-> r.exc]
    ELSE [success |-> TRUE, synced |-> r.ret]

\* C18: a batched sync (type = all) on a connected instance answers with the
\* three result entries: the entry of an operation is a failure when that
\* operation raised and a success when it returned, and each operation's entry
\* and effect on the store are what the operation gives on its own, whatever
\* the outcome of the other two.
C18_BatchedSyncIsolated ==
    [][(last'.op = "sync_data" /\ last'.http # 400 /\ last'.type = "all") =>
          LET i == last'.id
              g == sync_groups(i, last'.before, last'.resp, clock')
              c == sync_contacts(i, last'.before, last'.cresp, clock')
              s == sync_instance_status(inst[i], inst[i], last'.sresp)
          IN  /\ last'.http = 200
              /\ DOMAIN last'.results = {"groups", "contacts", "status"}
              /\ last'.results.groups = EntryOf(g)
              /\ last'.results.contacts = EntryOf(c)
              /\ last'.results.status.success = ~s.raised
              /\ groups' = g.db.groups
              /\ participants' = g.db.participants
              /\ contacts' = c.db.contacts
              /\ inst'[i] = s.db]_vars

\* the rows of the WhatsAppInstance table
Rows == {i \in DOMAIN inst : inst[i].exists}

IssuedTokens == {"tok"}

DEFAULT_UAZAPI_API_KEY == "admin-token"

C21_SyncEndpointsOnlyEnqueue ==
    [][last'.op = "enqueue_sync" =>
         /\ UNCHANGED <<inst, groups, participants, contacts>>
         /\ last'.calls = <<>>
         /\ IF last'.http = 200
            THEN /\ Len(queue') = Len(queue) + 1
                 /\ SubSeq(queue', 1, Len(queue)) = queue
                 /\ LET job == queue'[Len(queue')]
                    IN  /\ job.func = sync_job_name(last'.kind)
                        /\ job.args = <<ToString(last'.id)>>
                        /\ job.id = last'.job_id
                        /\ \A k \in 1..Len(queue) : queue[k].id # job.id
            ELSE queue' = queue]_vars

\* two jobs wait, a status job for a disconnected instance among them
C21_Witness ==
    /\ last.op = "enqueue_sync" /\ last.http = 200
    /\ Len(queue) = 2
    /\ \E k \in 1..2 : queue[k].func = sync_job_name("status")
                          /\ queue[k].args = <<"2">>
    /\ \E k \in 1..2 : queue[k].func = sync_job_name("groups")
    /\ ~is_connected(inst[2])
\* C22: whenever a status synchronisation maps the remote status (open or
\* connected) to local connected and stores it, phone_number holds the owner
\* value the gateway reported
C22_PhoneNumberIsOwner ==
    [][(/\ last'.op \in SyncOps
        /\ StatusAccepted(last'.resp)
        /\ Get(InstanceData(last'.resp), "status", None) \in {"open", "connected"}
        /\ "owner" \in DOMAIN InstanceData(last'.resp)
        /\ inst[last'.id].status # "connected"
        /\ inst'[last'.id].status = "connected") =>
          inst'[last'.id].phone_number = InstanceData(last'.resp).owner]_vars
\* the connect answer is a success whose "instance" object carries a QR code
CarriesQr(resp) ==
    /\ ConnectSucceeds(resp)
    /\ HasKey(connect_instance(resp).ret[2], "instance")
    /\ Truthy(Get(connect_instance(resp).ret[2].v.instance, "qrcode", None))

\* C23: a connect whose gateway answer carries a QR code leaves the instance
\* in status qr_code with the QR string stored and qr_code_expires_at set;
\* whenever the status is qr_code after a connect, qr_code and
\* qr_code_expires_at are both set
C23_ConnectStoresQrAndExpiry ==
    [][last'.op \in {"web_connect", "rest_connect"} =>
         LET row == inst'[last'.id]
         IN  /\ CarriesQr(last'.resp) =>
                  /\ last'.saved.status = "qr_code"
                  /\ last'.saved.qr_code
                       = connect_instance(last'.resp).ret[2].v.instance.qrcode
             /\ row.status = "qr_code" =>
                  row.qr_code # "" /\ row.qr_code_expires_at # NoTime]_vars
\* C24: whatever the order and the interleaving of the creation requests of
\* an account, the account never owns more Instance rows than its plan allows
C24_NeverAboveQuota ==
    \A u \in Users : Cardinality(InstancesOf(u)) <= max_instances(u)
\* C25: under any interleaving of concurrent sync_groups runs for the same
\* instance, and for any gateway list (a group id or a participant JID
\* listed twice included), there is never more than one Group row per
\* (instance, group_id) nor more than one GroupParticipant row per (group, jid)
C25_OneRowPerKeyUnderRaces ==
    /\ OneRowPerKey(groups, {"whatsapp_instance", "group_id"})
    /\ OneRowPerKey(participants, {"group", "jid"})

\* a worker whose SELECT had found no row meets, at its INSERT, the row that
\* another worker has stored meanwhile
C25_Witness ==
    /\ last.op = "sync_groups_write" /\ last.conflict /\ ~last.raised
    /\ groups # {} /\ participants # {}
\* C26: the operations on an Instance are not serialised.  A status
\* synchronisation, a connect and a disconnect of the same instance
\* interleave; each saves the whole row from the object it loaded, so after
\* its save the row is exactly what the operation computes from that object
\* (or is left untouched when it saves nothing): no field another request
\* changed meanwhile survives, the last save wins
C26_LastSaveWins ==
    [][last'.op = "instance_op" =>
         \/ inst'[last'.id] = inst[last'.id]
         \/ inst'[last'.id] = instance_op(last'.kind, last'.obj, last'.obj,
                                           last'.resp, last'.sresp, last'.now)]_vars

\* a disconnect had stored status disconnected and its time; a status
\* synchronisation that had loaded the instance before saves afterwards and
\* the row has the old values again
C26_Witness ==
    /\ last.op = "instance_op" /\ last.kind = "status"
    /\ last.before.status = "disconnected"
    /\ last.before.last_disconnected_at # NoTime
    /\ last.obj.last_disconnected_at = NoTime
    /\ inst[last.id].status = "connecting"
    /\ inst[last.id].last_disconnected_at = NoTime
\* C27: cancel_scheduled_message sets the status of a message to cancelled
\* if and only if the message belongs to the requesting user and its status
\* is pending or scheduled; a message that is sending, sent, failed or
\* cancelled, the message of another user, and every other message are left
\* unchanged
C27_CancelOnlyPendingOrScheduled ==
    [][last'.op = "cancel_scheduled_message" =>
         \A m \in DOMAIN scheduled :
            scheduled'[m] =
              IF /\ m = last'.id
                 /\ scheduled[m].user = last'.user
                 /\ scheduled[m].status \in {"pending", "scheduled"}
              THEN [scheduled[m] EXCEPT !.status = "cancelled"]
              ELSE scheduled[m]]_vars

\* a scheduled message of the user has been cancelled, next to a message
\* that is being sent
C27_Witness ==
    /\ last.op = "cancel_scheduled_message"
    /\ last.message = "Mensagem agendada cancelada com sucesso!"
    /\ scheduled[last.id].status = "cancelled"
    /\ \E m \in DOMAIN scheduled : scheduled[m].status = "sending"
ActedOn(l) ==
    IF "ids" \in DOMAIN l THEN l.ids
    ELSE IF "id" \in DOMAIN l THEN {l.id} ELSE {}

\* C29: every request that reads, lists, changes or deletes Instances acts
\* only on Instances that belong to the requesting user
C29_TenantIsolation ==
    [][\A i \in ActedOn(last') :
          inst[i] # NoRow => inst[i].user = last'.user]_vars
\* C30: a message is sent to the gateway only through an Instance whose
\* local status is connected: on the web send form and on the REST text,
\* media, location, contact, menu and bulk endpoints, a request that names an
\* instance that is not connected makes no gateway send call
C30_SendOnlyThroughConnected ==
    [][(/\ last'.op \in {"rest_send", "web_send"}
        /\ inst[last'.id] # NoRow
        /\ ~is_connected(inst[last'.id])) => last'.calls = <<>>]_vars
====
